---- MODULE Spec2Model ----
(***************************************************************************)
(* VeriBatch: the batch lineage and quantity-conservation engine.          *)
(*                                                                         *)
(* The persistent store (the batches and events tables, keyed by           *)
(* (actor_id, id)) is the state.  Every service function is an operator    *)
(* over a store value that returns the store after the call together with  *)
(* the call's outcome; since batch_service commits inside each helper, a   *)
(* handler that raises half way returns the store as committed so far.     *)
(* actors is the set of ids that have a row in the actors table.           *)
(*                                                                         *)
(* Quantities are integers in ticks of 0.05 of a unit (10 kg = 200), so    *)
(* that the 1% and 5% tolerances are computed exactly.                     *)
(***************************************************************************)
EXTENDS Integers, Sequences, FiniteSets, TLC

VARIABLES batches, events, pre, last, nops, actors

vars == <<batches, events, pre, last, nops, actors>>

-----------------------------------------------------------------------------
(* Bounds of the model *)

NumActors == 2
NumBatchIds == 3
NumEventIds == 2
MaxOutputs == 2
MaxSources == 2
MaxInputs == 2
MaxOps == 2

Actors == 1..NumActors
BatchIds == 1..NumBatchIds
EventIds == 1..NumEventIds

-----------------------------------------------------------------------------
(* Python values *)

\* None, and the empty dict: both are falsy where the code tests "if not x"
None == <<>>

Truthy(d) == d # None

\* dict.get(key, default)
Get(d, k, def) == IF k \in DOMAIN d THEN d[k] ELSE def

Qty(a, u) == [amount |-> a, unit |-> u]

VALID_STATUSES == {"active", "depleted", "quarantined", "recalled", "expired", "disposed"}

SplitTolerancePct == 1
MergeTolerancePct == 5

\* mutant: the tolerance is forgotten
ExceedsTolerance_NoSlack(total, base, pct) == total > base

\* total > base + base * pct/100, computed exactly
ExceedsTolerance(total, base, pct) == total * 100 > base * (100 + pct)

RECURSIVE SumSeq(_)
SumSeq(s) == IF s = <<>> THEN 0 ELSE Head(s) + SumSeq(Tail(s))

-----------------------------------------------------------------------------
(* The store: db.batches[actor] maps the ids of the actor's batches to     *)
(* their rows, db.events[actor] is the actor's event log in insertion      *)
(* order.                                                                  *)

Db(b, e) == [batches |-> b, events |-> e]

Ret(db, err) == [db |-> db, err |-> err]

BatchRow(item_id, status, quantity, origin_kind) ==
    [item_id |-> item_id, status |-> status, quantity |-> quantity,
     origin_kind |-> origin_kind]

HasBatch(db, actor_id, batch_id) == batch_id \in DOMAIN db.batches[actor_id]

get_batch(db, actor_id, batch_id) ==
    IF HasBatch(db, actor_id, batch_id) THEN db.batches[actor_id][batch_id] ELSE None

HasEvent(db, actor_id, event_id) ==
    \E i \in 1..Len(db.events[actor_id]) : db.events[actor_id][i].id = event_id

PutBatch(db, actor_id, batch_id, row) ==
    [db EXCEPT !.batches[actor_id] =
        [b \in (DOMAIN @) \cup {batch_id} |-> IF b = batch_id THEN row ELSE @[b]]]

\* db.add(db_event); db.commit(): the unique index (actor_id, id) rejects a second id
AddEvent(db, actor_id, ev) ==
    IF HasEvent(db, actor_id, ev.id)
    THEN Ret(db, "IntegrityError")
    ELSE Ret([db EXCEPT !.events[actor_id] = Append(@, ev)], "ok")

EventDoc(event_id, event_type, inputs, outputs) ==
    [id |-> event_id, event_type |-> event_type, inputs |-> inputs, outputs |-> outputs]

-----------------------------------------------------------------------------
(* validation.py *)

validate_batch_quantity(quantity) ==
    IF ~Truthy(quantity) THEN "ok"
    ELSE IF "amount" \notin DOMAIN quantity THEN "ValidationError"
    ELSE IF "unit" \notin DOMAIN quantity THEN "ValidationError"
    ELSE IF quantity.amount < 0 THEN "ValidationError"
    ELSE "ok"

\* the unit of each output, defaulting to the source's
SplitOutputUnits(output_batches, source_unit) ==
    [i \in 1..Len(output_batches) |->
        Get(Get(output_batches[i], "amount", None), "unit", source_unit)]

SplitOutputAmounts(output_batches) ==
    [i \in 1..Len(output_batches) |->
        Get(Get(output_batches[i], "amount", None), "amount", 0)]

\* mutant: only the existence of the source is checked
validate_split_quantities_SourceOnly(db, actor_id, source_batch_id, output_batches) ==
    IF ~HasBatch(db, actor_id, source_batch_id) THEN "ValidationError" ELSE "ok"

validate_split_quantities(db, actor_id, source_batch_id, output_batches) ==
    IF ~HasBatch(db, actor_id, source_batch_id) THEN "ValidationError"
    ELSE LET source_qty == get_batch(db, actor_id, source_batch_id).quantity
             source_amount == Get(source_qty, "amount", 0)
             source_unit == Get(source_qty, "unit", "unit")
             units == SplitOutputUnits(output_batches, source_unit)
             total_output == SumSeq(SplitOutputAmounts(output_batches))
         IN  IF ~Truthy(source_qty) THEN "ok"
             ELSE IF \E i \in 1..Len(units) : units[i] # source_unit
                  THEN "ValidationError"
             ELSE IF ExceedsTolerance(total_output, source_amount, SplitTolerancePct)
                  THEN "ValidationError"
             ELSE "ok"

\* the loop over source_batch_ids: [err, total_input, common_unit]; common_unit
\* is "None" until a source with a tracked quantity has been seen
RECURSIVE MergeScan(_, _, _, _, _, _)
MergeScan(db, actor_id, source_batch_ids, i, total_input, common_unit) ==
    IF i > Len(source_batch_ids)
    THEN [err |-> "ok", total_input |-> total_input, common_unit |-> common_unit]
    ELSE IF ~HasBatch(db, actor_id, source_batch_ids[i])
    THEN [err |-> "ValidationError", total_input |-> total_input,
          common_unit |-> common_unit]
    ELSE LET qty == get_batch(db, actor_id, source_batch_ids[i]).quantity
             amount == Get(qty, "amount", 0)
             unit == Get(qty, "unit", "unit")
         IN  IF ~Truthy(qty)
             THEN MergeScan(db, actor_id, source_batch_ids, i + 1, total_input,
                            common_unit)
             ELSE IF common_unit # "None" /\ unit # common_unit
             THEN [err |-> "ValidationError", total_input |-> total_input,
                   common_unit |-> common_unit]
             ELSE MergeScan(db, actor_id, source_batch_ids, i + 1,
                            total_input + amount, unit)

\* mutant: the units of the sources are not compared with one another
validate_merge_quantities_NoUnitCheck(db, actor_id, source_batch_ids, output_quantity) ==
    LET present == \A i \in 1..Len(source_batch_ids) :
                        HasBatch(db, actor_id, source_batch_ids[i])
        total_input ==
            SumSeq([i \in 1..Len(source_batch_ids) |->
                Get(get_batch(db, actor_id, source_batch_ids[i]).quantity, "amount", 0)])
    IN  IF ~present THEN "ValidationError"
        ELSE IF ExceedsTolerance(Get(output_quantity, "amount", 0), total_input,
                                 MergeTolerancePct)
             THEN "ValidationError"
        ELSE "ok"

validate_merge_quantities(db, actor_id, source_batch_ids, output_quantity) ==
    LET scan == MergeScan(db, actor_id, source_batch_ids, 1, 0, "None")
        output_amount == Get(output_quantity, "amount", 0)
        output_unit == Get(output_quantity, "unit", scan.common_unit)
    IN  IF scan.err # "ok" THEN "ValidationError"
        ELSE IF output_unit # scan.common_unit THEN "ValidationError"
        ELSE IF ExceedsTolerance(output_amount, scan.total_input, MergeTolerancePct)
             THEN "ValidationError"
        ELSE "ok"

\* the loop over inputs, raising at the first input that is not consumable
RECURSIVE validate_production_inputs(_, _, _)
validate_production_inputs(db, actor_id, inputs) ==
    IF inputs = <<>> THEN "ok"
    ELSE LET input_ref == Head(inputs)
             batch_id == Get(input_ref, "batch_id", 0)
             requested_amount == Get(input_ref, "amount", None)
             owner == Get(input_ref, "actor_id", actor_id)
             batch == get_batch(db, owner, batch_id)
             batch_qty == batch.quantity
             batch_unit == Get(batch_qty, "unit", "unit")
         IN  IF batch_id = 0 THEN validate_production_inputs(db, actor_id, Tail(inputs))
             ELSE IF ~HasBatch(db, owner, batch_id) THEN "ValidationError"
             ELSE IF batch.status \notin {"active", "quarantined"} THEN "ValidationError"
             ELSE IF /\ Truthy(requested_amount)
                     /\ Truthy(batch_qty)
                     /\ \/ Get(requested_amount, "unit", batch_unit) # batch_unit
                        \/ Get(requested_amount, "amount", 0) > Get(batch_qty, "amount", 0)
                  THEN "ValidationError"
             ELSE validate_production_inputs(db, actor_id, Tail(inputs))

-----------------------------------------------------------------------------
(* batch_service.py *)

\* mutant: an existing row with the same key is overwritten
create_batch_Upsert(db, batch_id, actor_id, item_id, quantity, status, origin_kind) ==
    IF validate_batch_quantity(quantity) # "ok" THEN Ret(db, "ValidationError")
    ELSE IF status \notin VALID_STATUSES THEN Ret(db, "ValueError")
    ELSE Ret(PutBatch(db, actor_id, batch_id,
                      BatchRow(item_id, status, quantity, origin_kind)), "ok")

\* quantity is None or the Quantity object as a dict; the row is committed
\* before the function returns
create_batch(db, batch_id, actor_id, item_id, quantity, status, origin_kind) ==
    IF validate_batch_quantity(quantity) # "ok" THEN Ret(db, "ValidationError")
    ELSE IF status \notin VALID_STATUSES THEN Ret(db, "ValueError")
    ELSE IF HasBatch(db, actor_id, batch_id) THEN Ret(db, "IntegrityError")
    ELSE Ret(PutBatch(db, actor_id, batch_id,
                      BatchRow(item_id, status, quantity, origin_kind)), "ok")

\* mutant: the new status is not written
update_batch_status_NotWritten(db, actor_id, batch_id, new_status) == db

update_batch_status(db, actor_id, batch_id, new_status) ==
    IF ~HasBatch(db, actor_id, batch_id) THEN db
    ELSE [db EXCEPT !.batches[actor_id][batch_id].status = new_status]

-----------------------------------------------------------------------------
(* event_service.py: split_batch *)

\* the loop that creates the output batches, stopping at the first create_batch
\* that raises; the batches created before it stay committed
RECURSIVE SplitCreateOutputs(_, _, _, _, _)
SplitCreateOutputs(db, actor_id, source, output_batches, i) ==
    IF i > Len(output_batches) THEN Ret(db, "ok")
    ELSE LET output == output_batches[i]
             amount == Get(output, "amount", None)
             quantity_obj ==
                 Qty(Get(amount, "amount", 0),
                     Get(amount, "unit", Get(source.quantity, "unit", "unit")))
             r == create_batch(db, output.batch_id, actor_id, source.item_id,
                               quantity_obj, "active", "split")
         IN  IF r.err # "ok" THEN r
             ELSE SplitCreateOutputs(r.db, actor_id, source, output_batches, i + 1)

split_batch(db, event_id, actor_id, source_batch_id, output_batches) ==
    IF validate_split_quantities(db, actor_id, source_batch_id, output_batches) # "ok"
    THEN Ret(db, "ValidationError")
    ELSE IF ~HasBatch(db, actor_id, source_batch_id) THEN Ret(db, "ValueError")
    ELSE LET source == get_batch(db, actor_id, source_batch_id)
             event_data ==
                 EventDoc(event_id, "split",
                          <<[batch_id |-> source_batch_id, amount |-> source.quantity]>>,
                          output_batches)
             created == SplitCreateOutputs(db, actor_id, source, output_batches, 1)
         IN  IF created.err # "ok" THEN created
             ELSE AddEvent(update_batch_status(created.db, actor_id, source_batch_id,
                                               "depleted"),
                           actor_id, event_data)

-----------------------------------------------------------------------------
(* event_service.py: merge_batches *)

\* the loop that fetches the sources: the item_id of the first source, or
\* "ValueError" when a source is missing or has another item_id
RECURSIVE MergeItemId(_, _, _, _, _)
MergeItemId(db, actor_id, source_batch_ids, i, item_id) ==
    IF i > Len(source_batch_ids) THEN item_id
    ELSE IF ~HasBatch(db, actor_id, source_batch_ids[i]) THEN "ValueError"
    ELSE LET batch == get_batch(db, actor_id, source_batch_ids[i])
         IN  IF item_id = "None"
             THEN MergeItemId(db, actor_id, source_batch_ids, i + 1, batch.item_id)
             ELSE IF item_id # batch.item_id THEN "ValueError"
             ELSE MergeItemId(db, actor_id, source_batch_ids, i + 1, item_id)

\* mutant: only the first source is marked depleted
MergeDeplete_FirstOnly(db, actor_id, source_batch_ids, i) ==
    update_batch_status(db, actor_id, source_batch_ids[1], "depleted")

RECURSIVE MergeDeplete(_, _, _, _)
MergeDeplete(db, actor_id, source_batch_ids, i) ==
    IF i > Len(source_batch_ids) THEN db
    ELSE MergeDeplete(update_batch_status(db, actor_id, source_batch_ids[i], "depleted"),
                      actor_id, source_batch_ids, i + 1)

merge_batches(db, event_id, actor_id, source_batch_ids, output_batch_id, output_quantity) ==
    IF validate_merge_quantities(db, actor_id, source_batch_ids, output_quantity) # "ok"
    THEN Ret(db, "ValidationError")
    ELSE LET item_id == MergeItemId(db, actor_id, source_batch_ids, 1, "None")
             inputs == [i \in 1..Len(source_batch_ids) |->
                          [batch_id |-> source_batch_ids[i],
                           amount |-> get_batch(db, actor_id, source_batch_ids[i]).quantity]]
             event_data ==
                 EventDoc(event_id, "merge", inputs,
                          <<[batch_id |-> output_batch_id, amount |-> output_quantity]>>)
             quantity_obj == Qty(Get(output_quantity, "amount", 0),
                                 Get(output_quantity, "unit", "unit"))
             created == create_batch(db, output_batch_id, actor_id, item_id,
                                     quantity_obj, "active", "merged")
         IN  IF item_id = "ValueError" THEN Ret(db, "ValueError")
             ELSE IF created.err # "ok" THEN created
             ELSE AddEvent(MergeDeplete(created.db, actor_id, source_batch_ids, 1),
                           actor_id, event_data)

-----------------------------------------------------------------------------
(* event_service.py: record_processing_event *)

Max(a, b) == IF a >= b THEN a ELSE b

\* the quantity part of update_batch_details: doc["quantity"] = data["quantity"]
update_batch_quantity(db, actor_id, batch_id, quantity) ==
    IF ~HasBatch(db, actor_id, batch_id) THEN db
    ELSE [db EXCEPT !.batches[actor_id][batch_id].quantity = quantity]

\* what one input does to the store: nothing unless it names a batch of the
\* actor with a tracked quantity in the unit used
DeductInput(db, actor_id, input_data) ==
    LET batch_id == Get(input_data, "batch_id", 0)
        used_qty == Get(input_data, "amount", None)
        current_qty == get_batch(db, actor_id, batch_id).quantity
        current_unit == Get(current_qty, "unit", "None")
        used_unit == Get(used_qty, "unit", current_unit)
        new_amount == Max(0, Get(current_qty, "amount", 0) - Get(used_qty, "amount", 0))
        updated == update_batch_quantity(db, actor_id, batch_id,
                                         Qty(new_amount, current_unit))
    IN  IF batch_id = 0 \/ ~Truthy(used_qty) THEN db
        ELSE IF ~HasBatch(db, actor_id, batch_id) THEN db
        ELSE IF ~Truthy(current_qty) THEN db
        ELSE IF current_unit # used_unit THEN db
        ELSE IF new_amount <= 0
             THEN update_batch_status(updated, actor_id, batch_id, "depleted")
        ELSE updated

RECURSIVE DeductInputs(_, _, _)
DeductInputs(db, actor_id, inputs) ==
    IF inputs = <<>> THEN db
    ELSE DeductInputs(DeductInput(db, actor_id, Head(inputs)), actor_id, Tail(inputs))

\* mutant: an output that names an existing batch replaces its quantity
RECURSIVE ProcessingCreateOutputs_MergeOnCreate(_, _, _)
ProcessingCreateOutputs_MergeOnCreate(db, actor_id, outputs) ==
    IF outputs = <<>> THEN Ret(db, "ok")
    ELSE LET output == Head(outputs)
             batch_id == Get(output, "batch_id", 0)
             quantity == Get(output, "amount", None)
             r == IF batch_id = 0 THEN Ret(db, "ok")
                  ELSE IF HasBatch(db, actor_id, batch_id)
                  THEN Ret(PutBatch(db, actor_id, batch_id,
                               [get_batch(db, actor_id, batch_id)
                                    EXCEPT !.quantity = quantity]), "ok")
                  ELSE create_batch(db, batch_id, actor_id,
                                    Get(output, "item_id", "unknown"),
                                    quantity, "active", "transformed")
         IN  IF r.err # "ok" THEN r
             ELSE ProcessingCreateOutputs_MergeOnCreate(r.db, actor_id, Tail(outputs))

\* the loop that creates the output batches that do not exist yet, stopping
\* at the first output that raises
RECURSIVE ProcessingCreateOutputs(_, _, _)
ProcessingCreateOutputs(db, actor_id, outputs) ==
    IF outputs = <<>> THEN Ret(db, "ok")
    ELSE LET output == Head(outputs)
             batch_id == Get(output, "batch_id", 0)
             quantity == Get(output, "amount", None)
             r == IF batch_id = 0 \/ HasBatch(db, actor_id, batch_id) THEN Ret(db, "ok")
                  ELSE IF Truthy(quantity) /\ {"amount", "unit"} \subseteq DOMAIN quantity
                  THEN create_batch(db, batch_id, actor_id,
                                    Get(output, "item_id", "unknown"),
                                    quantity, "active", "transformed")
                  ELSE IF Truthy(quantity) THEN Ret(db, "KeyError")
                  ELSE create_batch(db, batch_id, actor_id,
                                    Get(output, "item_id", "unknown"),
                                    None, "active", "transformed")
         IN  IF r.err # "ok" THEN r
             ELSE ProcessingCreateOutputs(r.db, actor_id, Tail(outputs))

record_processing_event(db, event_id, actor_id, inputs, outputs) ==
    IF validate_production_inputs(db, actor_id, inputs) # "ok"
    THEN Ret(db, "ValidationError")
    ELSE LET event_data == EventDoc(event_id, "processing", inputs, outputs)
             created == ProcessingCreateOutputs(DeductInputs(db, actor_id, inputs),
                                                actor_id, outputs)
         IN  IF created.err # "ok" THEN created
             ELSE AddEvent(created.db, actor_id, event_data)

-----------------------------------------------------------------------------
(* Calls.  Each action is one call of a service function by a client: it   *)
(* records the store before the call (pre), the call and its outcome       *)
(* (last), and installs the store the call leaves behind.                  *)

NoCall == [op |-> "none", err |-> "ok"]

Apply(call, r) ==
    /\ nops < MaxOps
    /\ nops' = nops + 1
    /\ UNCHANGED actors
    /\ pre' = Db(batches, events)
    /\ batches' = r.db.batches
    /\ events' = r.db.events
    /\ last' = [call EXCEPT !.err = r.err]

Cur == Db(batches, events)

EmptyStore == [a \in Actors |-> <<>>]

SeqsUpTo(S, n) == UNION {[1..k -> S] : k \in 1..n}

StoreOf(rows1, rows2) == [a \in Actors |-> IF a = 1 THEN rows1 ELSE IF a = 2 THEN rows2 ELSE <<>>]

InitWith(Seeds) ==
    /\ batches \in Seeds
    /\ events = EmptyStore
    /\ pre = Db(batches, events)
    /\ last = NoCall
    /\ nops = 0
    /\ actors = Actors

\* create_batch called directly (the batch registration of batch_service)
CreateBatch(actor_id, batch_id, item_id, quantity, status) ==
    Apply([op |-> "create_batch", actor_id |-> actor_id, batch_id |-> batch_id,
           item_id |-> item_id, quantity |-> quantity, status |-> status, err |-> "ok"],
          create_batch(Cur, batch_id, actor_id, item_id, quantity, status, "None"))

SplitBatch(actor_id, event_id, source_batch_id, output_batches) ==
    Apply([op |-> "split_batch", actor_id |-> actor_id, event_id |-> event_id,
           source_batch_id |-> source_batch_id, output_batches |-> output_batches,
           err |-> "ok"],
          split_batch(Cur, event_id, actor_id, source_batch_id, output_batches))

MergeBatches(actor_id, event_id, source_batch_ids, output_batch_id, output_quantity) ==
    Apply([op |-> "merge_batches", actor_id |-> actor_id, event_id |-> event_id,
           source_batch_ids |-> source_batch_ids, output_batch_id |-> output_batch_id,
           output_quantity |-> output_quantity, err |-> "ok"],
          merge_batches(Cur, event_id, actor_id, source_batch_ids, output_batch_id,
                        output_quantity))

RecordProcessingEvent(actor_id, event_id, inputs, outputs) ==
    Apply([op |-> "record_processing_event", actor_id |-> actor_id,
           event_id |-> event_id, inputs |-> inputs, outputs |-> outputs, err |-> "ok"],
          record_processing_event(Cur, event_id, actor_id, inputs, outputs))

-----------------------------------------------------------------------------
(* The whole engine, from the empty store *)

Items == {"I1", "I2"}

Init == InitWith({StoreOf(<<>>, <<>>)})

Next ==
    \/ \E actor_id \in Actors, batch_id \in BatchIds, item_id \in Items,
          quantity \in {None, Qty(200, "kg"), Qty(60, "L")},
          status \in {"active", "disposed"} :
        CreateBatch(actor_id, batch_id, item_id, quantity, status)
    \/ \E actor_id \in Actors, event_id \in EventIds, source_batch_id \in BatchIds,
          output_batches \in SeqsUpTo({[batch_id |-> b, amount |-> Qty(100, "kg")] :
                                          b \in BatchIds}, MaxOutputs) :
        SplitBatch(actor_id, event_id, source_batch_id, output_batches)
    \/ \E actor_id \in Actors, event_id \in EventIds,
          source_batch_ids \in SeqsUpTo(BatchIds, MaxSources),
          output_batch_id \in BatchIds :
        MergeBatches(actor_id, event_id, source_batch_ids, output_batch_id,
                     Qty(200, "kg"))
    \/ \E actor_id \in Actors, event_id \in EventIds,
          inputs \in SeqsUpTo({[batch_id |-> b, amount |-> Qty(120, "kg")] :
                                  b \in BatchIds}, MaxInputs),
          outputs \in {<<>>, <<[batch_id |-> NumBatchIds, item_id |-> "I2",
                                amount |-> Qty(180, "jar")]>>} :
        RecordProcessingEvent(actor_id, event_id, inputs, outputs)

Spec == Init /\ [][Next]_vars

-----------------------------------------------------------------------------
(* Splitting.  Actor 1 has registered batch 1 (10 kg, or without a tracked *)
(* quantity) through create_batch, and possibly batch 2; then it makes up   *)
(* to MaxOps calls.                                                        *)

SplitQtys == {Qty(100, "kg"), Qty(101, "kg"), Qty(104, "kg"), Qty(-1, "kg"), Qty(100, "L")}

SplitOutputSpecs == {[batch_id |-> b, amount |-> q] : b \in BatchIds \ {1}, q \in SplitQtys}

SplitSeeds ==
    {StoreOf([b \in S |-> BatchRow("I1", "active", q, "None")], <<>>) :
        S \in {{1}, {1, 2}}, q \in {Qty(200, "kg"), None}}

InitSplit == InitWith(SplitSeeds)

NextSplit ==
    \/ \E batch_id \in BatchIds :
        CreateBatch(1, batch_id, "I1", Qty(200, "kg"), "active")
    \/ \E event_id \in EventIds, source_batch_id \in BatchIds,
          output_batches \in SeqsUpTo(SplitOutputSpecs, MaxOutputs) :
        SplitBatch(1, event_id, source_batch_id, output_batches)

SpecSplit == InitSplit /\ [][NextSplit]_vars

-----------------------------------------------------------------------------
(* Merging.  Actor 1 has registered batches 1 and 2 (10 kg + 10 kg, or     *)
(* 5 kg and 3 L; of one item or of two), or batch 1 alone.                  *)

MergeQtys == {Qty(380, "kg"), Qty(420, "kg"), Qty(430, "kg"), Qty(160, "kg"),
              Qty(380, "L"), Qty(-1, "kg")}

MergeSeeds ==
    {StoreOf((1 :> BatchRow("I1", "active", q[1], "None")) @@
             (2 :> BatchRow(i, "active", q[2], "None")), <<>>) :
        i \in {"I1", "I2"},
        q \in {<<Qty(200, "kg"), Qty(200, "kg")>>, <<Qty(100, "kg"), Qty(60, "L")>>}}
    \cup {StoreOf((1 :> BatchRow("I1", "active", Qty(200, "kg"), "None")), <<>>)}

InitMerge == InitWith(MergeSeeds)

NextMerge ==
    \/ \E batch_id \in BatchIds :
        CreateBatch(1, batch_id, "I1", Qty(200, "kg"), "active")
    \/ \E event_id \in EventIds, source_batch_ids \in SeqsUpTo(BatchIds, MaxSources),
          output_batch_id \in BatchIds, output_quantity \in MergeQtys :
        MergeBatches(1, event_id, source_batch_ids, output_batch_id, output_quantity)

SpecMerge == InitMerge /\ [][NextMerge]_vars

-----------------------------------------------------------------------------
(* Processing.  Actor 1 has registered batch 1 (10 kg) with some status    *)
(* and batch 2; actor 2 may hold a batch with the same id 1.                *)

ProcQtys == {Qty(120, "kg"), Qty(200, "kg"), Qty(120, "L")}

ProcInputSpecs ==
    {[batch_id |-> b, amount |-> q] : b \in {1, 2}, q \in ProcQtys}
    \cup {[batch_id |-> 1, amount |-> Qty(120, "kg"), actor_id |-> 2]}

ProcOutputLists ==
    {<<>>,
     <<[batch_id |-> 3, item_id |-> "I2", amount |-> Qty(180, "jar")]>>,
     <<[batch_id |-> 1, item_id |-> "I2", amount |-> Qty(180, "jar")]>>,
     <<[batch_id |-> 3, item_id |-> "I2", amount |-> Qty(180, "jar")],
       [batch_id |-> 3, item_id |-> "I1", amount |-> Qty(100, "jar")]>>}

ProcSeeds ==
    {StoreOf([b \in S |-> BatchRow("I1", IF b = 1 THEN st ELSE "active",
                                   Qty(200, "kg"), "None")],
             [b \in T |-> BatchRow("I1", "active", Qty(200, "kg"), "None")]) :
        S \in {{1, 2}}, st \in {"active", "quarantined", "disposed"},
        T \in {{}, {1}}}

InitProc == InitWith(ProcSeeds)

NextProc ==
    \/ \E batch_id \in BatchIds :
        CreateBatch(1, batch_id, "I1", Qty(200, "kg"), "active")
    \/ \E event_id \in EventIds, inputs \in SeqsUpTo(ProcInputSpecs, MaxInputs),
          outputs \in ProcOutputLists :
        RecordProcessingEvent(1, event_id, inputs, outputs)

SpecProc == InitProc /\ [][NextProc]_vars

-----------------------------------------------------------------------------
(* What the last call was about, read from the store before it *)

IsCall(op) == last.op = op

PreRows == pre.batches[last.actor_id]

Rows == batches[last.actor_id]

PreHasEvent(event_id) ==
    \E i \in 1..Len(pre.events[last.actor_id]) : pre.events[last.actor_id][i].id = event_id

Unchanged == batches = pre.batches /\ events = pre.events

\* the event the call appended to the actor's log, if it did
Appended(e) ==
    /\ Len(events[last.actor_id]) = Len(pre.events[last.actor_id]) + 1
    /\ events[last.actor_id] = Append(pre.events[last.actor_id], e)

Distinct(ids) == \A i, j \in 1..Len(ids) : ids[i] = ids[j] => i = j

OutIds == [i \in 1..Len(last.output_batches) |-> last.output_batches[i].batch_id]

OutAmounts == [i \in 1..Len(last.output_batches) |-> last.output_batches[i].amount.amount]

OutUnits == [i \in 1..Len(last.output_batches) |-> last.output_batches[i].amount.unit]

\* a split_batch call on an existing source with a tracked quantity
SplitOfTracked ==
    /\ IsCall("split_batch")
    /\ last.source_batch_id \in DOMAIN PreRows
    /\ PreRows[last.source_batch_id].quantity # None

SplitSource == PreRows[last.source_batch_id]

SplitUnitsMatch == \A i \in 1..Len(OutUnits) : OutUnits[i] = SplitSource.quantity.unit

SplitIdsFresh == \A i \in 1..Len(OutIds) : OutIds[i] \notin DOMAIN PreRows

SplitWithinTolerance == SumSeq(OutAmounts) * 100 <= SplitSource.quantity.amount * 101

SplitSucceeded ==
    /\ last.err = "ok"
    /\ Rows[last.source_batch_id].status = "depleted"
    /\ \A i \in 1..Len(OutIds) :
        /\ OutIds[i] \in DOMAIN Rows
        /\ Rows[OutIds[i]].status = "active"
        /\ Rows[OutIds[i]].origin_kind = "split"
        /\ Rows[OutIds[i]].quantity = last.output_batches[i].amount
    /\ Appended([id |-> last.event_id, event_type |-> "split",
                 inputs |-> <<[batch_id |-> last.source_batch_id,
                               amount |-> SplitSource.quantity]>>,
                 outputs |-> last.output_batches])

-----------------------------------------------------------------------------
\* C1: every event-recording operation is all-or-nothing: a call that fails
\* leaves the batches and the event log as they were before it, and a call that
\* succeeds has appended its Event.
C1_AllOrNothing ==
    last.op \in {"record_processing_event", "split_batch", "merge_batches"} =>
        IF last.err = "ok"
        THEN Len(events[last.actor_id]) = Len(pre.events[last.actor_id]) + 1
        ELSE Unchanged

\* C2 as stated: a split of an existing source into outputs of the source's
\* unit, with fresh batch ids and amounts summing to at most 1.01 x the source
\* amount, succeeds: the source ends depleted, every output is an active batch
\* of origin_kind split, and the split Event with the source's full quantity as
\* its single input is persisted.
C2_SplitWithinToleranceSucceeds ==
    (SplitOfTracked /\ SplitUnitsMatch /\ SplitIdsFresh /\ SplitWithinTolerance)
        => SplitSucceeded

\* C2 amended: the same, for calls whose output batch ids are also pairwise
\* distinct, whose output amounts are not negative and whose event_id is not
\* yet the id of an event of the actor.
C2_SplitWithinToleranceSucceeds_Amended ==
    (/\ SplitOfTracked /\ SplitUnitsMatch /\ SplitIdsFresh /\ SplitWithinTolerance
     /\ Distinct(OutIds)
     /\ \A i \in 1..Len(OutAmounts) : OutAmounts[i] >= 0
     /\ ~PreHasEvent(last.event_id))
        => SplitSucceeded

\* a successful split into two outputs whose sum is above the source amount,
\* within the tolerance
C2_Witness ==
    /\ SplitOfTracked /\ SplitUnitsMatch /\ SplitIdsFresh /\ SplitWithinTolerance
    /\ Len(OutIds) = 2
    /\ SumSeq(OutAmounts) > SplitSource.quantity.amount
    /\ last.err = "ok"
    /\ Rows[last.source_batch_id].status = "depleted"

\* C3: a split whose outputs sum to more than 1.01 x the source amount, or
\* that has an output in another unit than the source's, fails with
\* ValidationError and changes no batch and no event; 10.05 kg (201 ticks) out
\* of 10 kg (200 ticks) into fresh batches, each of a non-negative amount, is
\* accepted.
C3_SplitOverToleranceRejected ==
    /\ (SplitOfTracked /\ (~SplitWithinTolerance \/ ~SplitUnitsMatch))
            => (last.err = "ValidationError" /\ Unchanged)
    /\ (/\ SplitOfTracked /\ SplitUnitsMatch
        /\ SplitSource.quantity.amount = 200 /\ SumSeq(OutAmounts) = 201
        /\ \A i \in 1..Len(OutAmounts) : OutAmounts[i] >= 0
        /\ SplitIdsFresh /\ Distinct(OutIds) /\ ~PreHasEvent(last.event_id))
            => last.err = "ok"

\* 10.2 kg (204 ticks) out of 10 kg was asked for, in the source's unit
C3_Witness ==
    /\ SplitOfTracked /\ SplitUnitsMatch /\ SplitIdsFresh
    /\ SplitSource.quantity.amount = 200 /\ SumSeq(OutAmounts) = 204
    /\ last.err = "ValidationError"

\* C5: a batch whose status is depleted, disposed or recalled is not consumed
\* again: no record_processing_event, split_batch or merge_batches call that
\* names it as an input or source succeeds.
Terminal(actor_id, batch_id) ==
    /\ batch_id \in DOMAIN pre.batches[actor_id]
    /\ pre.batches[actor_id][batch_id].status \in {"depleted", "disposed", "recalled"}

C5_TerminalNotConsumed ==
    /\ (IsCall("split_batch") /\ Terminal(last.actor_id, last.source_batch_id))
            => last.err # "ok"
    /\ (/\ IsCall("merge_batches")
        /\ \E i \in 1..Len(last.source_batch_ids) :
                Terminal(last.actor_id, last.source_batch_ids[i]))
            => last.err # "ok"
    /\ (/\ IsCall("record_processing_event")
        /\ \E i \in 1..Len(last.inputs) :
                Terminal(last.actor_id, last.inputs[i].batch_id))
            => last.err # "ok"

-----------------------------------------------------------------------------
(* Merging *)

SrcIds == last.source_batch_ids

\* a merge_batches call all of whose sources exist with a tracked quantity
MergeOfTracked ==
    /\ IsCall("merge_batches")
    /\ \A i \in 1..Len(SrcIds) :
        SrcIds[i] \in DOMAIN PreRows /\ PreRows[SrcIds[i]].quantity # None

RECURSIVE SumOver(_, _)
SumOver(f, S) ==
    IF S = {} THEN 0
    ELSE LET x == CHOOSE y \in S : TRUE IN f[x] + SumOver(f, S \ {x})

PreAmount == [b \in DOMAIN PreRows |-> PreRows[b].quantity.amount]

\* the source amounts summed over the entries of source_batch_ids
MergeListedTotal == SumSeq([i \in 1..Len(SrcIds) |-> PreAmount[SrcIds[i]]])

\* the amounts of the distinct batches the merge consumes
MergeConsumedTotal == SumOver(PreAmount, {SrcIds[i] : i \in 1..Len(SrcIds)})

MergeSameItem == \A i, j \in 1..Len(SrcIds) : PreRows[SrcIds[i]].item_id = PreRows[SrcIds[j]].item_id

MergeSameUnit ==
    \A i, j \in 1..Len(SrcIds) :
        PreRows[SrcIds[i]].quantity.unit = PreRows[SrcIds[j]].quantity.unit

MergeSucceeded ==
    /\ last.err = "ok"
    /\ last.output_batch_id \in DOMAIN Rows
    /\ Rows[last.output_batch_id].status = "active"
    /\ Rows[last.output_batch_id].origin_kind = "merged"
    /\ Rows[last.output_batch_id].item_id = PreRows[SrcIds[1]].item_id
    /\ \A i \in 1..Len(SrcIds) : Rows[SrcIds[i]].status = "depleted"
    /\ Appended([id |-> last.event_id, event_type |-> "merge",
                 inputs |-> [i \in 1..Len(SrcIds) |->
                               [batch_id |-> SrcIds[i],
                                amount |-> PreRows[SrcIds[i]].quantity]],
                 outputs |-> <<[batch_id |-> last.output_batch_id,
                                amount |-> last.output_quantity]>>])

\* C6: conservation per event: the outputs of a successful split or merge sum
\* to at most (1 + tolerance) x the quantities of the distinct batches the event
\* consumes (1% for a split, 5% for a merge), also when source_batch_ids names a
\* batch more than once.
C6_Conservation ==
    /\ (SplitOfTracked /\ last.err = "ok") => SplitWithinTolerance
    /\ (MergeOfTracked /\ last.err = "ok")
            => last.output_quantity.amount * 100 <= MergeConsumedTotal * 105

\* C7: a merge over sources whose quantities are in different units fails with
\* ValidationError whatever output is asked for, and changes no batch and no
\* event.
C7_MergeUnitMismatchRejected ==
    (/\ IsCall("merge_batches")
     /\ \E i, j \in 1..Len(SrcIds) :
            /\ SrcIds[i] \in DOMAIN PreRows /\ SrcIds[j] \in DOMAIN PreRows
            /\ PreRows[SrcIds[i]].quantity # None /\ PreRows[SrcIds[j]].quantity # None
            /\ PreRows[SrcIds[i]].quantity.unit # PreRows[SrcIds[j]].quantity.unit)
        => (last.err = "ValidationError" /\ Unchanged)

\* 5 kg and 3 L were to be merged, the output asked for in kg
C7_Witness ==
    /\ MergeOfTracked
    /\ SrcIds = <<1, 2>>
    /\ PreRows[1].quantity = Qty(100, "kg") /\ PreRows[2].quantity = Qty(60, "L")
    /\ PreRows[1].item_id = PreRows[2].item_id
    /\ last.output_quantity = Qty(160, "kg")
    /\ last.err = "ValidationError"

C9_MergeItemMismatchValueError ==
    (/\ IsCall("merge_batches")
     /\ \A i \in 1..Len(SrcIds) : SrcIds[i] \in DOMAIN PreRows
     /\ ~MergeSameItem)
        => (last.err = "ValueError" /\ Unchanged)

-----------------------------------------------------------------------------
(* Processing *)

\* the inputs of the call that name a batch of the actor with a tracked quantity
ConsumedInputs ==
    {i \in 1..Len(last.inputs) :
        /\ last.inputs[i].batch_id \in DOMAIN PreRows
        /\ PreRows[last.inputs[i].batch_id].quantity # None}

\* C4: record_processing_event with an input batch whose status is neither
\* active nor quarantined fails with ValidationError and changes no batch and no
\* event, also when the inputs before it are consumable.
C4_StatusGating ==
    (/\ IsCall("record_processing_event")
     /\ \E i \in 1..Len(last.inputs) :
            /\ last.inputs[i].batch_id \in DOMAIN PreRows
            /\ PreRows[last.inputs[i].batch_id].status \notin {"active", "quarantined"})
        => (last.err = "ValidationError" /\ Unchanged)

\* C10: after a successful record_processing_event every input batch has its
\* previous amount minus the consumed amount, is depleted exactly when that is
\* <= 0 and otherwise keeps its status, and the processing Event carries the
\* inputs and outputs as given.
C10_ProcessingDeducts ==
    (IsCall("record_processing_event") /\ last.err = "ok") =>
        /\ \A i \in ConsumedInputs :
            LET b == last.inputs[i].batch_id
                expected == PreRows[b].quantity.amount - last.inputs[i].amount.amount
            IN  /\ Rows[b].quantity = Qty(expected, PreRows[b].quantity.unit)
                /\ Rows[b].status = "depleted" <=> expected <= 0
                /\ expected > 0 => Rows[b].status = PreRows[b].status
        /\ Appended([id |-> last.event_id, event_type |-> "processing",
                     inputs |-> last.inputs, outputs |-> last.outputs])

\* input i of the call asks for more than the actor's batch holds, or in
\* another unit, or names a batch the actor does not have
InputNotCoverable(i) ==
    LET b == last.inputs[i].batch_id
        req == last.inputs[i].amount
    IN  \/ b \notin DOMAIN PreRows
        \/ /\ PreRows[b].quantity # None
           /\ \/ req.unit # PreRows[b].quantity.unit
              \/ req.amount > PreRows[b].quantity.amount

\* C11: record_processing_event with an input that asks for more than the
\* referenced batch currently holds, or in another unit than the batch's, or
\* that names a batch that does not exist, fails with ValidationError, and no
\* batch and no event has changed.
C11_ProcessingInputRejected ==
    (/\ IsCall("record_processing_event")
     /\ \E i \in 1..Len(last.inputs) : InputNotCoverable(i))
        => (last.err = "ValidationError" /\ Unchanged)

-----------------------------------------------------------------------------
(* Batch lifecycle: disposal, status and detail updates *)

\* POST /dispose-batch: event_service defines no dispose_batch, so the route's
\* lookup of that attribute raises AttributeError, which the route does not
\* catch, before the store is read or written
dispose_batch_operation(db, event_id, actor_id, batch_id, reason) ==
    Ret(db, "AttributeError")

\* batch_service.update_batch_status as a call of its own: None is returned
\* for a batch the actor does not have
set_status(db, actor_id, batch_id, new_status) ==
    IF ~HasBatch(db, actor_id, batch_id) THEN Ret(db, "NotFound")
    ELSE Ret(update_batch_status(db, actor_id, batch_id, new_status), "ok")

\* the keys of data that a row of the model holds are copied into it
update_batch_details(db, actor_id, batch_id, data) ==
    IF ~HasBatch(db, actor_id, batch_id) THEN Ret(db, "NotFound")
    ELSE Ret([db EXCEPT !.batches[actor_id][batch_id] =
                [@ EXCEPT !.status = Get(data, "status", @),
                          !.quantity = Get(data, "quantity", @),
                          !.origin_kind = Get(data, "origin_kind", @)]], "ok")

DisposeBatch(actor_id, event_id, batch_id, reason) ==
    Apply([op |-> "dispose_batch", actor_id |-> actor_id, event_id |-> event_id,
           batch_id |-> batch_id, reason |-> reason, err |-> "ok"],
          dispose_batch_operation(Cur, event_id, actor_id, batch_id, reason))

SetStatus(actor_id, batch_id, new_status) ==
    Apply([op |-> "update_batch_status", actor_id |-> actor_id, batch_id |-> batch_id,
           new_status |-> new_status, err |-> "ok"],
          set_status(Cur, actor_id, batch_id, new_status))

UpdateBatchDetails(actor_id, batch_id, data) ==
    Apply([op |-> "update_batch_details", actor_id |-> actor_id, batch_id |-> batch_id,
           data |-> data, err |-> "ok"],
          update_batch_details(Cur, actor_id, batch_id, data))

LifecycleSeeds ==
    {StoreOf([b \in S |-> BatchRow("I1", "active", Qty(200, "kg"), "None")], <<>>) :
        S \in {{1}, {1, 2}}}

LifecycleQtys == {None, Qty(200, "kg"), Qty(-1, "kg")}

LifecycleData ==
    {[quantity |-> Qty(0, "kg")], [quantity |-> Qty(-1, "kg")],
     [quantity |-> Qty(100, "kg")], [status |-> "expired"], [status |-> "spoiled"],
     [quantity |-> Qty(0, "kg"), origin_kind |-> "harvested"]}

InitLifecycle == InitWith(LifecycleSeeds)

NextLifecycle ==
    \/ \E batch_id \in BatchIds, item_id \in Items, quantity \in LifecycleQtys,
          status \in {"active", "quarantined", "spoiled"} :
        CreateBatch(1, batch_id, item_id, quantity, status)
    \/ \E batch_id \in BatchIds, new_status \in {"depleted", "recalled", "spoiled"} :
        SetStatus(1, batch_id, new_status)
    \/ \E batch_id \in BatchIds, data \in LifecycleData :
        UpdateBatchDetails(1, batch_id, data)
    \/ \E event_id \in EventIds, batch_id \in BatchIds :
        DisposeBatch(1, event_id, batch_id, "expired")
    \/ \E event_id \in EventIds, batch_id \in BatchIds :
        RecordProcessingEvent(1, event_id,
                              <<[batch_id |-> batch_id, amount |-> Qty(200, "kg")]>>, <<>>)

SpecLifecycle == InitLifecycle /\ [][NextLifecycle]_vars

\* C12: dispose_batch on an existing batch sets its status to disposed and
\* persists a disposal Event whose inputs are exactly the batch with its
\* recorded quantity; on a batch the actor does not have it fails with
\* ValueError and persists nothing.
C12_DisposeBatch ==
    IsCall("dispose_batch") =>
        IF last.batch_id \in DOMAIN PreRows
        THEN /\ last.err = "ok"
             /\ Rows[last.batch_id].status = "disposed"
             /\ Len(events[last.actor_id]) = Len(pre.events[last.actor_id]) + 1
             /\ LET e == events[last.actor_id][Len(events[last.actor_id])]
                IN  /\ e.id = last.event_id
                    /\ e.event_type = "disposal"
                    /\ e.inputs = <<[batch_id |-> last.batch_id,
                                     amount |-> PreRows[last.batch_id].quantity]>>
        ELSE last.err = "ValueError" /\ Unchanged

\* C14: every persisted batch that has a quantity has an amount >= 0, in every
\* state reached by create_batch, update_batch_details and the event-recording
\* calls, whether they succeeded or failed.
C14_AmountNonNegative ==
    \A a \in Actors : \A b \in DOMAIN batches[a] :
        batches[a][b].quantity # None => batches[a][b].quantity.amount >= 0

\* C15: every persisted batch has one of the six valid statuses: create_batch,
\* update_batch_status and update_batch_details reject any other value and leave
\* the batch as it was.
C15_StatusValid ==
    /\ \A a \in Actors : \A b \in DOMAIN batches[a] :
            batches[a][b].status \in VALID_STATUSES
    /\ (IsCall("create_batch") /\ last.status \notin VALID_STATUSES)
            => (last.err # "ok" /\ Unchanged)
    /\ (IsCall("update_batch_status") /\ last.new_status \notin VALID_STATUSES)
            => (last.err # "ok" /\ Unchanged)
    /\ (/\ IsCall("update_batch_details") /\ "status" \in DOMAIN last.data
        /\ last.data.status \notin VALID_STATUSES)
            => (last.err # "ok" /\ Unchanged)

\* C16: a quantity update that sets a batch's amount to 0 or less leaves the
\* batch with status depleted.
C16_QuantityUpdateDepletes ==
    (/\ IsCall("update_batch_details")
     /\ last.batch_id \in DOMAIN PreRows
     /\ "quantity" \in DOMAIN last.data
     /\ last.data.quantity.amount <= 0)
        => Rows[last.batch_id].status = "depleted"

\* C17: create_batch with an (actor_id, batch_id) that already exists fails and
\* leaves every batch and event as it was; with a valid quantity and status the
\* failure is the duplicate-key error of the unique index.
C17_DuplicateCreateRejected ==
    (IsCall("create_batch") /\ last.batch_id \in DOMAIN PreRows) =>
        /\ last.err # "ok"
        /\ Unchanged
        /\ (validate_batch_quantity(last.quantity) = "ok"
            /\ last.status \in VALID_STATUSES) => last.err = "IntegrityError"

\* a quarantined batch of another item and without a quantity was to be
\* created under the id of the actor's active 10 kg batch
C17_Witness ==
    /\ IsCall("create_batch") /\ last.batch_id \in DOMAIN PreRows
    /\ last.status = "quarantined" /\ last.item_id = "I2" /\ last.quantity = None
    /\ PreRows[last.batch_id] = BatchRow("I1", "active", Qty(200, "kg"), "None")
    /\ last.err = "IntegrityError"
    /\ Rows[last.batch_id] = PreRows[last.batch_id]

-----------------------------------------------------------------------------
(* Corrections of persisted events.  An update payload is written as the   *)
(* keys it gives a value (values) and the keys it gives null (nulls).       *)

\* for key, value in data.items(): pop the key when value is None, else set it
MergeDoc(doc, data) ==
    LET keys == ((DOMAIN doc) \cup (DOMAIN data.values)) \ data.nulls
    IN  [k \in keys |-> IF k \in DOMAIN data.values THEN data.values[k] ELSE doc[k]]

EventIndex(db, actor_id, event_id) ==
    CHOOSE i \in 1..Len(db.events[actor_id]) : db.events[actor_id][i].id = event_id

\* event_service.update_event: None is returned for an unknown event
update_event(db, actor_id, event_id, data) ==
    IF ~HasEvent(db, actor_id, event_id) THEN Ret(db, "NotFound")
    ELSE LET i == EventIndex(db, actor_id, event_id)
         IN  Ret([db EXCEPT !.events[actor_id][i] = MergeDoc(@, data)], "ok")

\* PUT /actors/{actor_id}/events/{event_id}: the whole document is replaced
\* by the request body; the key column id of the row stays
put_event(db, actor_id, event_id, event_data) ==
    IF ~HasEvent(db, actor_id, event_id) THEN Ret(db, "HTTP404")
    ELSE LET i == EventIndex(db, actor_id, event_id)
         IN  Ret([db EXCEPT !.events[actor_id][i] =
                    [k \in (DOMAIN event_data) \cup {"id"} |->
                        IF k = "id" THEN event_id ELSE event_data[k]]], "ok")

UpdateEvent(actor_id, event_id, data) ==
    Apply([op |-> "update_event", actor_id |-> actor_id, event_id |-> event_id,
           data |-> data, err |-> "ok"],
          update_event(Cur, actor_id, event_id, data))

PutEvent(actor_id, event_id, event_data) ==
    Apply([op |-> "put_event", actor_id |-> actor_id, event_id |-> event_id,
           event_data |-> event_data, err |-> "ok"],
          put_event(Cur, actor_id, event_id, event_data))

EventUpdates ==
    {[values |-> [notes |-> "recounted"], nulls |-> {}],
     [values |-> <<>>, nulls |-> {"notes"}],
     [values |-> [inputs |-> <<[batch_id |-> 2, amount |-> Qty(20, "kg")]>>], nulls |-> {}],
     [values |-> [event_type |-> "disposal", notes |-> "recounted"], nulls |-> {}],
     [values |-> <<>>, nulls |-> {"outputs"}]}

EventPuts ==
    {[event_type |-> "processing", notes |-> "recounted"],
     [event_type |-> "processing",
      inputs |-> <<[batch_id |-> 1, amount |-> Qty(120, "kg")]>>,
      outputs |-> <<>>, notes |-> "recounted"]}

EventSeeds ==
    {StoreOf([b \in S |-> BatchRow("I1", "active", Qty(200, "kg"), "None")], <<>>) :
        S \in {{1}, {1, 2}}}

InitEvents == InitWith(EventSeeds)

NextEvents ==
    \/ \E event_id \in EventIds,
          outputs \in {<<>>, <<[batch_id |-> 3, item_id |-> "I2",
                                amount |-> Qty(180, "jar")]>>} :
        RecordProcessingEvent(1, event_id,
                              <<[batch_id |-> 1, amount |-> Qty(120, "kg")]>>, outputs)
    \/ \E event_id \in EventIds, data \in EventUpdates :
        UpdateEvent(1, event_id, data)
    \/ \E event_id \in EventIds, event_data \in EventPuts :
        PutEvent(1, event_id, event_data)

SpecEvents == InitEvents /\ [][NextEvents]_vars

\* the inputs, outputs and event_type of a persisted event document
Lineage(e) ==
    <<Get(e, "event_type", "None"), Get(e, "inputs", None), Get(e, "outputs", None)>>

\* C13: once an Event is persisted, no later operation changes its inputs,
\* its outputs or its event_type: whatever the payload, update_event and the
\* event PUT route change metadata only.
C13_EventLineageImmutable ==
    \A a \in Actors : \A i \in 1..Len(pre.events[a]) :
        /\ i <= Len(events[a])
        /\ events[a][i].id = pre.events[a][i].id
        /\ Lineage(events[a][i]) = Lineage(pre.events[a][i])

-----------------------------------------------------------------------------
(* ooj_client: documents and entity objects.  A document is a function     *)
(* from its keys to their values; an entity object is a record with every   *)
(* field of the dataclass, where an absent string is "", an absent actor    *)
(* reference is 0 and an absent object is None (all falsy in Python).       *)

SCHEMA_VERSION == "open-origin-json/0.4"

VALID_EVENT_TYPES ==
    {"harvest", "processing", "packaging", "receiving", "shipping", "storage_move",
     "quality_check", "split", "merge", "disposal"}

\* data[key] = value is written only "if value:"
StrField(key, value) == IF value # "" THEN key :> value ELSE <<>>

ObjField(key, value) == IF Truthy(value) THEN key :> value ELSE <<>>

Quantity_to_dict(self) == [amount |-> self.amount, unit |-> self.unit]

Quantity_from_dict(data) == [amount |-> data.amount, unit |-> data.unit]

Attachment_to_dict(self) ==
    [type |-> self.type, url |-> self.url] @@ StrField("description", self.description)

Attachment_from_dict(data) ==
    [type |-> data.type, url |-> data.url, description |-> Get(data, "description", "")]

\* BatchInput and BatchOutput have the same three fields and the same code
BatchRef_to_dict(self) ==
    [batch_id |-> self.batch_id, amount |-> Quantity_to_dict(self.amount)]
    @@ (IF self.actor_id # 0 THEN "actor_id" :> self.actor_id ELSE <<>>)

BatchRef_from_dict(data) ==
    [batch_id |-> data.batch_id, amount |-> Quantity_from_dict(data.amount),
     actor_id |-> Get(data, "actor_id", 0)]

\* the list comprehensions [X.from_dict(i) for i in ...], [i.to_dict() for i in ...]
Attachments_from_dict(list) == [i \in 1..Len(list) |-> Attachment_from_dict(list[i])]

Attachments_to_dict(list) == [i \in 1..Len(list) |-> Attachment_to_dict(list[i])]

BatchRefs_from_dict(list) == [i \in 1..Len(list) |-> BatchRef_from_dict(list[i])]

BatchRefs_to_dict(list) == [i \in 1..Len(list) |-> BatchRef_to_dict(list[i])]

Batch_from_dict(data) ==
    [id |-> data.id, actor_id |-> data.actor_id, item_id |-> data.item_id,
     location_id |-> Get(data, "location_id", ""),
     quantity |-> IF "quantity" \in DOMAIN data
                  THEN Quantity_from_dict(data.quantity) ELSE None,
     status |-> Get(data, "status", "active"),
     origin_kind |-> Get(data, "origin_kind", ""),
     production_date |-> Get(data, "production_date", ""),
     expiration_date |-> Get(data, "expiration_date", ""),
     best_before_date |-> Get(data, "best_before_date", ""),
     external_ids |-> Get(data, "external_ids", None),
     attachments |-> Attachments_from_dict(Get(data, "attachments", <<>>)),
     created_at |-> Get(data, "created_at", ""),
     updated_at |-> Get(data, "updated_at", "")]

Batch_to_dict(self) ==
    [schema |-> SCHEMA_VERSION, type |-> "batch", id |-> self.id,
     actor_id |-> self.actor_id, item_id |-> self.item_id]
    @@ StrField("location_id", self.location_id)
    @@ (IF Truthy(self.quantity)
        THEN "quantity" :> Quantity_to_dict(self.quantity) ELSE <<>>)
    @@ (IF self.status # "active" THEN "status" :> self.status ELSE <<>>)
    @@ StrField("origin_kind", self.origin_kind)
    @@ StrField("production_date", self.production_date)
    @@ StrField("expiration_date", self.expiration_date)
    @@ StrField("best_before_date", self.best_before_date)
    @@ ObjField("external_ids", self.external_ids)
    @@ ObjField("attachments", Attachments_to_dict(self.attachments))
    @@ StrField("created_at", self.created_at)
    @@ StrField("updated_at", self.updated_at)

Event_from_dict(data) ==
    [id |-> data.id, actor_id |-> data.actor_id, timestamp |-> data.timestamp,
     event_type |-> data.event_type,
     location_id |-> Get(data, "location_id", ""),
     process_id |-> Get(data, "process_id", ""),
     inputs |-> BatchRefs_from_dict(Get(data, "inputs", <<>>)),
     outputs |-> BatchRefs_from_dict(Get(data, "outputs", <<>>)),
     packaging_materials |->
        BatchRefs_from_dict(Get(data, "packaging_materials", <<>>)),
     notes |-> Get(data, "notes", ""),
     performed_by |-> Get(data, "performed_by", ""),
     external_ids |-> Get(data, "external_ids", None),
     attachments |-> Attachments_from_dict(Get(data, "attachments", <<>>)),
     created_at |-> Get(data, "created_at", ""),
     updated_at |-> Get(data, "updated_at", "")]

Event_to_dict(self) ==
    [schema |-> SCHEMA_VERSION, type |-> "event", id |-> self.id,
     actor_id |-> self.actor_id, timestamp |-> self.timestamp,
     event_type |-> self.event_type]
    @@ StrField("location_id", self.location_id)
    @@ StrField("process_id", self.process_id)
    @@ ObjField("inputs", BatchRefs_to_dict(self.inputs))
    @@ ObjField("outputs", BatchRefs_to_dict(self.outputs))
    @@ ObjField("packaging_materials", BatchRefs_to_dict(self.packaging_materials))
    @@ StrField("notes", self.notes)
    @@ StrField("performed_by", self.performed_by)
    @@ ObjField("external_ids", self.external_ids)
    @@ ObjField("attachments", Attachments_to_dict(self.attachments))
    @@ StrField("created_at", self.created_at)
    @@ StrField("updated_at", self.updated_at)

\* Batch.from_dict(doc).to_dict(), with the errors the constructor raises
Batch_round_trip(doc) ==
    IF ~({"id", "actor_id", "item_id"} \subseteq DOMAIN doc) THEN "KeyError"
    ELSE IF Get(doc, "status", "active") \notin VALID_STATUSES THEN "ValueError"
    ELSE Batch_to_dict(Batch_from_dict(doc))

Event_round_trip(doc) ==
    IF ~({"id", "actor_id", "timestamp", "event_type"} \subseteq DOMAIN doc)
    THEN "KeyError"
    ELSE IF doc.event_type \notin VALID_EVENT_TYPES THEN "ValueError"
    ELSE Event_to_dict(Event_from_dict(doc))

\* the restriction of a document to some of its keys
Restrict(doc, keys) == [k \in keys |-> doc[k]]

\* well-formed batch documents: the required keys and any of the optional ones
BatchDocs ==
    {Restrict([schema |-> SCHEMA_VERSION, type |-> "batch", id |-> 1, actor_id |-> 1,
               item_id |-> "I1", quantity |-> Qty(200, "kg"), status |-> st,
               origin_kind |-> "harvested", location_id |-> "field-1",
               created_at |-> "2025-01-01T00:00:00Z"],
              {"schema", "type", "id", "actor_id", "item_id"} \cup opt) :
        st \in {"active", "depleted"},
        opt \in SUBSET {"quantity", "status", "origin_kind", "location_id", "created_at"}}

EventOutputs ==
    {<<[batch_id |-> 3, amount |-> Qty(180, "jar")]>>,
     <<[batch_id |-> 3, item_id |-> "I2", amount |-> Qty(180, "jar")]>>}

\* well-formed event documents
EventDocs ==
    {Restrict([schema |-> SCHEMA_VERSION, type |-> "event", id |-> 1, actor_id |-> 1,
               timestamp |-> "2025-01-01T00:00:00Z", event_type |-> "processing",
               inputs |-> <<[batch_id |-> 1, amount |-> Qty(120, "kg")]>>,
               outputs |-> outs, notes |-> "first run",
               waste |-> <<[amount |-> Qty(20, "kg")]>>],
              {"schema", "type", "id", "actor_id", "timestamp", "event_type"} \cup opt) :
        outs \in EventOutputs,
        opt \in SUBSET {"inputs", "outputs", "notes", "waste"}}

BatchRoundTrip(doc) ==
    Apply([op |-> "Batch.round_trip", doc |-> doc, result |-> Batch_round_trip(doc),
           err |-> "ok"], Ret(Cur, "ok"))

EventRoundTrip(doc) ==
    Apply([op |-> "Event.round_trip", doc |-> doc, result |-> Event_round_trip(doc),
           err |-> "ok"], Ret(Cur, "ok"))

NextRoundTrip ==
    \/ \E doc \in BatchDocs : BatchRoundTrip(doc)
    \/ \E doc \in EventDocs : EventRoundTrip(doc)

SpecRoundTrip == Init /\ [][NextRoundTrip]_vars

\* C18: for every well-formed Batch or Event document doc,
\* to_dict(from_dict(doc)) equals doc: no key is dropped and no value altered.
C18_RoundTrip ==
    last.op \in {"Batch.round_trip", "Event.round_trip"} => last.result = last.doc

-----------------------------------------------------------------------------
(* traceability_service.py: get_batch_traceability *)

\* POST /actors/{actor_id}/events: the body is persisted as the event's
\* document unless the actor already has an event with its id
create_event(db, actor_id, event_data) ==
    IF ~({"id", "event_type"} \subseteq DOMAIN event_data) THEN Ret(db, "HTTP400")
    ELSE IF HasEvent(db, actor_id, event_data.id) THEN Ret(db, "HTTP400")
    ELSE Ret([db EXCEPT !.events[actor_id] = Append(@, event_data)], "ok")

\* the loop over the inputs (outputs) of a triggering event: an entry is
\* appended for a batch id that is not listed yet, if the batch is found
RECURSIVE CollectRefs(_, _, _, _, _)
CollectRefs(db, actor_id, event_id, refs, listed) ==
    IF refs = <<>> THEN listed
    ELSE LET ref == Head(refs)
             ref_batch_id == Get(ref, "batch_id", 0)
             owner == Get(ref, "actor_id", actor_id)
             batch == get_batch(db, owner, ref_batch_id)
             entry == [batch_id |-> ref_batch_id, item_id |-> batch.item_id,
                       amount |-> Get(ref, "amount", None), status |-> batch.status,
                       event_id |-> event_id]
             fresh == /\ ref_batch_id # 0
                      /\ \A i \in 1..Len(listed) : listed[i].batch_id # ref_batch_id
         IN  CollectRefs(db, actor_id, event_id, Tail(refs),
                         IF fresh /\ HasBatch(db, owner, ref_batch_id)
                         THEN Append(listed, entry) ELSE listed)

\* the loop over the outputs (inputs) of one event, looking for batch_id: at
\* every hit the event is appended to the triggering events and its other
\* side is collected; acc is [listed, triggered]
RECURSIVE ScanRefs(_, _, _, _, _, _, _)
ScanRefs(db, actor_id, batch_id, event, refs, other, acc) ==
    IF refs = <<>> THEN acc
    ELSE ScanRefs(db, actor_id, batch_id, event, Tail(refs), other,
                  IF Get(Head(refs), "batch_id", 0) = batch_id
                  THEN [listed |-> CollectRefs(db, actor_id, event.id,
                                               Get(event, other, <<>>), acc.listed),
                        triggered |-> Append(acc.triggered, event)]
                  ELSE acc)

\* the loop over the actor's events
RECURSIVE ScanEvents(_, _, _, _, _, _, _)
ScanEvents(db, actor_id, batch_id, evs, side, other, acc) ==
    IF evs = <<>> THEN acc
    ELSE ScanEvents(db, actor_id, batch_id, Tail(evs), side, other,
                    ScanRefs(db, actor_id, batch_id, Head(evs),
                             Get(Head(evs), side, <<>>), other, acc))

\* for event in result["events"]: keep it if its id was not seen yet
RECURSIVE UniqueById(_, _)
UniqueById(evs, unique_events) ==
    IF evs = <<>> THEN unique_events
    ELSE UniqueById(Tail(evs),
                    IF \E i \in 1..Len(unique_events) : unique_events[i].id = Head(evs).id
                    THEN unique_events ELSE Append(unique_events, Head(evs)))

\* mutant: every input of a triggering event gets an entry, listed or not
get_batch_traceability_NoDedup(db, actor_id, batch_id, direction) ==
    LET evs == db.events[actor_id]
        Refs(side, other) ==
            LET hit == SelectSeq(evs, LAMBDA e :
                          \E i \in 1..Len(Get(e, side, <<>>)) :
                              Get(Get(e, side, <<>>)[i], "batch_id", 0) = batch_id)
                RECURSIVE All(_)
                All(es) ==
                    IF es = <<>> THEN <<>>
                    ELSE [i \in 1..Len(Get(Head(es), other, <<>>)) |->
                            [batch_id |-> Get(Get(Head(es), other, <<>>)[i], "batch_id", 0)]]
                         \o All(Tail(es))
            IN  [listed |-> All(hit), triggered |-> hit]
        up == Refs("outputs", "inputs")
        down == Refs("inputs", "outputs")
    IN  [batch_id |-> batch_id, actor_id |-> actor_id,
         upstream |-> IF direction \in {"upstream", "both"} THEN up.listed ELSE <<>>,
         downstream |-> IF direction \in {"downstream", "both"} THEN down.listed ELSE <<>>,
         events |-> UniqueById((IF direction \in {"upstream", "both"}
                                THEN up.triggered ELSE <<>>)
                               \o (IF direction \in {"downstream", "both"}
                                   THEN down.triggered ELSE <<>>), <<>>)]

get_batch_traceability(db, actor_id, batch_id, direction) ==
    LET evs == db.events[actor_id]
        none == [listed |-> <<>>, triggered |-> <<>>]
        up == IF direction \in {"upstream", "both"}
              THEN ScanEvents(db, actor_id, batch_id, evs, "outputs", "inputs", none)
              ELSE none
        down == IF direction \in {"downstream", "both"}
                THEN ScanEvents(db, actor_id, batch_id, evs, "inputs", "outputs", none)
                ELSE none
        existing_event_ids == {up.triggered[i].id : i \in 1..Len(up.triggered)}
        result_events ==
            up.triggered \o SelectSeq(down.triggered,
                                      LAMBDA e : e.id \notin existing_event_ids)
    IN  [batch_id |-> batch_id, actor_id |-> actor_id,
         upstream |-> up.listed, downstream |-> down.listed,
         events |-> UniqueById(result_events, <<>>)]

CreateEvent(actor_id, event_data) ==
    Apply([op |-> "create_event", actor_id |-> actor_id, event_data |-> event_data,
           err |-> "ok"],
          create_event(Cur, actor_id, event_data))

GetBatchTraceability(actor_id, batch_id, direction) ==
    Apply([op |-> "get_batch_traceability", actor_id |-> actor_id,
           batch_id |-> batch_id, direction |-> direction,
           result |-> get_batch_traceability(Cur, actor_id, batch_id, direction),
           err |-> "ok"],
          Ret(Cur, "ok"))

\* what an event may list as inputs and as outputs
TraceRef(b) == [batch_id |-> b, amount |-> Qty(100, "kg")]

TraceInputs ==
    {<<TraceRef(1)>>, <<TraceRef(1), TraceRef(2)>>, <<TraceRef(2), TraceRef(2)>>,
     <<[batch_id |-> 2, amount |-> Qty(100, "kg"), actor_id |-> 2]>>}

TraceOutputs == {<<TraceRef(3)>>, <<TraceRef(3), TraceRef(3)>>, <<TraceRef(1)>>}

TraceEvents(event_id) ==
    {EventDoc(event_id, "processing", inputs, outputs) :
        inputs \in TraceInputs, outputs \in TraceOutputs}

\* event logs of actor 1 with at most one event per id
TraceLogs ==
    {<<>>} \cup {<<e>> : e \in TraceEvents(1)}
    \cup {<<e1, e2>> : e1 \in TraceEvents(1), e2 \in TraceEvents(2)}

\* actor 1 has batches 1 and 3 and may have batch 2; actor 2 may have a batch 2
TraceStores ==
    {StoreOf([b \in S |-> BatchRow("I1", "active", Qty(200, "kg"), "None")],
             [b \in T |-> BatchRow("I2", "active", Qty(200, "kg"), "None")]) :
        S \in {{1, 3}, {1, 2, 3}}, T \in {{}, {2}}}

InitTrace ==
    /\ batches \in TraceStores
    /\ events \in {StoreOf(log, <<>>) : log \in TraceLogs}
    /\ pre = Db(batches, events)
    /\ last = NoCall
    /\ nops = 0
    /\ actors = Actors

NextTrace ==
    \/ \E event_id \in EventIds : \E event_data \in TraceEvents(event_id) :
        CreateEvent(1, event_data)
    \/ \E batch_id \in BatchIds, direction \in {"upstream", "downstream", "both"} :
        GetBatchTraceability(1, batch_id, direction)

SpecTrace == InitTrace /\ [][NextTrace]_vars

\* the event log the traceability query reads
TraceLog == pre.events[last.actor_id]

SeqIds(entries, key) == [i \in 1..Len(entries) |-> entries[i][key]]

Range(seq) == {seq[i] : i \in 1..Len(seq)}

\* the batch ids an event names on one side
RefIds(e, side) == {Get(Get(e, side, <<>>)[i], "batch_id", 0) :
                        i \in 1..Len(Get(e, side, <<>>))} \ {0}

\* the events of the log that name the queried batch on that side
Triggers(side) == {i \in 1..Len(TraceLog) : last.batch_id \in RefIds(TraceLog[i], side)}

\* the batch ids the triggering events name on their other side
LinkedIds(side, other) == UNION {RefIds(TraceLog[i], other) : i \in Triggers(side)}

\* those among them that name a batch in the store, looked up under the
\* reference's actor_id if it has one and under the caller's otherwise
ResolvedIds(side, other) ==
    {b \in LinkedIds(side, other) :
        \E i \in Triggers(side) : \E j \in 1..Len(Get(TraceLog[i], other, <<>>)) :
            LET ref == Get(TraceLog[i], other, <<>>)[j]
            IN  /\ Get(ref, "batch_id", 0) = b
                /\ b \in DOMAIN pre.batches[Get(ref, "actor_id", last.actor_id)]}

Wants(dir) == last.direction \in {dir, "both"}

\* the events list holds each triggering event of the asked directions once
TraceEventsOnce ==
    /\ Distinct(SeqIds(last.result.events, "id"))
    /\ Range(SeqIds(last.result.events, "id")) =
        {TraceLog[i].id : i \in (IF Wants("upstream") THEN Triggers("outputs") ELSE {})
                             \cup (IF Wants("downstream") THEN Triggers("inputs") ELSE {})}

-----------------------------------------------------------------------------
(* traceability_service.py: get_full_traceability_graph.  The recursion of *)
(* build_tree is run one call at a time: last.stack holds the calls still   *)
(* to be made, in the order the recursion makes them, last.visited is the   *)
(* set shared by all calls and last.trace lists the nodes returned so far.  *)

\* the inputs build_tree recurses into for a batch: for every event, in log
\* order, that has the batch among its outputs, every input with a batch_id
TreeChildren(db, actor_id, current_batch_id) ==
    LET evs == db.events[actor_id]
        is_output(e) ==
            \E i \in 1..Len(Get(e, "outputs", <<>>)) :
                Get(Get(e, "outputs", <<>>)[i], "batch_id", 0) = current_batch_id
        RECURSIVE Inputs(_)
        Inputs(es) ==
            IF es = <<>> THEN <<>>
            ELSE (IF is_output(Head(es))
                  THEN SelectSeq(SeqIds(Get(Head(es), "inputs", <<>>), "batch_id"),
                                 LAMBDA b : b # 0)
                  ELSE <<>>) \o Inputs(Tail(es))
    IN  Inputs(evs)

\* mutant: a batch without a Batch record is expanded like any other
build_tree_MissingExpanded(db, run) ==
    LET call == Head(run.stack)
        children == TreeChildren(db, run.actor_id, call.batch_id)
        Leaf(kind) == [batch_id |-> call.batch_id, depth |-> call.depth, kind |-> kind]
    IN  IF call.depth > run.max_depth \/ call.batch_id \in run.visited
        THEN [run EXCEPT !.stack = Tail(@), !.trace = Append(@, Leaf("visited"))]
        ELSE [run EXCEPT !.stack = [i \in 1..Len(children) |->
                                      [batch_id |-> children[i], depth |-> call.depth + 1]]
                                   \o Tail(@),
                         !.trace = Append(@, Leaf("node")),
                         !.visited = @ \cup {call.batch_id}]

\* mutant: the visited set is not consulted, only the depth
build_tree_NoVisited(db, run) ==
    LET call == Head(run.stack)
        children == TreeChildren(db, run.actor_id, call.batch_id)
        Leaf(kind) == [batch_id |-> call.batch_id, depth |-> call.depth, kind |-> kind]
    IN  IF call.depth > run.max_depth
        THEN [run EXCEPT !.stack = Tail(@), !.trace = Append(@, Leaf("visited"))]
        ELSE IF ~HasBatch(db, run.actor_id, call.batch_id)
        THEN [run EXCEPT !.stack = Tail(@), !.trace = Append(@, Leaf("not found")),
                         !.visited = @ \cup {call.batch_id}]
        ELSE [run EXCEPT !.stack = [i \in 1..Len(children) |->
                                      [batch_id |-> children[i], depth |-> call.depth + 1]]
                                   \o Tail(@),
                         !.trace = Append(@, Leaf("node")),
                         !.visited = @ \cup {call.batch_id}]

\* one call of build_tree, up to the recursive calls it makes
build_tree(db, run) ==
    LET call == Head(run.stack)
        children == TreeChildren(db, run.actor_id, call.batch_id)
        Leaf(kind) == [batch_id |-> call.batch_id, depth |-> call.depth, kind |-> kind]
    IN  IF call.depth > run.max_depth \/ call.batch_id \in run.visited
        THEN [run EXCEPT !.stack = Tail(@), !.trace = Append(@, Leaf("visited"))]
        ELSE IF ~HasBatch(db, run.actor_id, call.batch_id)
        THEN [run EXCEPT !.stack = Tail(@), !.trace = Append(@, Leaf("not found")),
                         !.visited = @ \cup {call.batch_id}]
        ELSE [run EXCEPT !.stack = [i \in 1..Len(children) |->
                                      [batch_id |-> children[i], depth |-> call.depth + 1]]
                                   \o Tail(@),
                         !.trace = Append(@, Leaf("node")),
                         !.visited = @ \cup {call.batch_id}]

Running == last.op = "get_full_traceability_graph" /\ last.stack # <<>>

\* the call is made: visited is empty and build_tree(batch_id) is to be run
GetFullTraceabilityGraph(actor_id, batch_id, max_depth) ==
    /\ ~Running
    /\ Apply([op |-> "get_full_traceability_graph", actor_id |-> actor_id,
              batch_id |-> batch_id, max_depth |-> max_depth, visited |-> {},
              stack |-> <<[batch_id |-> batch_id, depth |-> 0]>>, trace |-> <<>>,
              err |-> "ok"],
             Ret(Cur, "ok"))

BuildTree ==
    /\ Running
    /\ last' = build_tree(Cur, last)
    /\ UNCHANGED <<batches, events, pre, nops, actors>>

GraphRef(b) == [batch_id |-> b, amount |-> Qty(100, "kg")]

GraphInputs ==
    {<<GraphRef(1)>>, <<GraphRef(1), GraphRef(2)>>, <<GraphRef(2), GraphRef(2)>>,
     <<GraphRef(3)>>}

GraphOutputs == {<<GraphRef(3)>>, <<GraphRef(1)>>, <<GraphRef(2)>>}

GraphEvents(event_id) ==
    {EventDoc(event_id, "processing", inputs, outputs) :
        inputs \in GraphInputs, outputs \in GraphOutputs}

\* event logs of actor 1, among them logs in which a batch is its own input
\* (inputs [1], outputs [1]) or an input of one of its inputs
GraphLogs ==
    {<<e>> : e \in GraphEvents(1)}
    \cup {<<e1, e2>> : e1 \in GraphEvents(1), e2 \in GraphEvents(2)}

GraphDepths == {0, 1, 3}

InitGraph ==
    /\ batches \in {StoreOf([b \in S |-> BatchRow("I1", "active", Qty(200, "kg"), "None")],
                            <<>>) : S \in {{1, 3}, {1, 2, 3}}}
    /\ events \in {StoreOf(log, <<>>) : log \in GraphLogs}
    /\ pre = Db(batches, events)
    /\ last = NoCall
    /\ nops = 0
    /\ actors = Actors

NextGraph ==
    \/ \E batch_id \in BatchIds, max_depth \in GraphDepths :
        GetFullTraceabilityGraph(1, batch_id, max_depth)
    \/ BuildTree

SpecGraph == InitGraph /\ [][NextGraph]_vars /\ WF_vars(BuildTree)

\* an upper bound on the calls of build_tree one query makes: the first, and
\* one per input of an event for each batch the event outputs, as every batch
\* is expanded at most once
GraphCallBound ==
    1 + SumSeq([i \in 1..Len(events[last.actor_id]) |->
                  Len(Get(events[last.actor_id][i], "inputs", <<>>))
                  * Len(Get(events[last.actor_id][i], "outputs", <<>>))])

\* what the calls made so far have returned
GraphLeavesRight ==
    \A j \in 1..Len(last.trace) :
        LET t == last.trace[j]
            expanded_before ==
                \E i \in 1..(j - 1) : /\ last.trace[i].batch_id = t.batch_id
                                      /\ last.trace[i].kind # "visited"
        IN  t.kind = "visited" <=> (t.depth > last.max_depth \/ expanded_before)

GraphSafe ==
    last.op = "get_full_traceability_graph" =>
        /\ GraphLeavesRight
        /\ Len(last.trace) + Len(last.stack) <= GraphCallBound

GraphRootIsRaw ==
    \A i \in 1..Len(events[last.actor_id]) :
        last.batch_id \notin RefIds(events[last.actor_id][i], "outputs")

\* C21: a graph query on an existing batch that no event outputs returns the
\* single node of that batch, at depth 0 and without inputs; a batch id that
\* has no Batch record, when build_tree is called on it within the depth limit
\* and for the first time, yields a not-found leaf, and only such an id does.
C21_GraphLeaves ==
    last.op = "get_full_traceability_graph" =>
        /\ (/\ last.stack = <<>>
            /\ last.batch_id \in DOMAIN batches[last.actor_id]
            /\ GraphRootIsRaw)
                => last.trace = <<[batch_id |-> last.batch_id, depth |-> 0,
                                   kind |-> "node"]>>
        /\ \A j \in 1..Len(last.trace) :
            LET missing == last.trace[j].batch_id \notin DOMAIN batches[last.actor_id]
            IN  /\ missing => last.trace[j].kind \in {"not found", "visited"}
                /\ last.trace[j].kind = "not found" => missing
                /\ (/\ missing /\ last.trace[j].depth <= last.max_depth
                    /\ \A i \in 1..(j - 1) :
                            last.trace[i].batch_id # last.trace[j].batch_id)
                        => last.trace[j].kind = "not found"

\* the query on batch 3 has ended; the log's only event turns batch 1 into
\* batch 2, so batch 3 is a raw-material leaf
C21_Witness ==
    /\ last.op = "get_full_traceability_graph" /\ last.stack = <<>>
    /\ last.batch_id = 3 /\ 3 \in DOMAIN batches[1]
    /\ Len(events[1]) = 1 /\ GraphRootIsRaw
    /\ last.trace = <<[batch_id |-> 3, depth |-> 0, kind |-> "node"]>>

-----------------------------------------------------------------------------
(* A split followed by traceability queries.  Actor 1 has registered batch *)
(* 1, and possibly batch 2, through create_batch.                           *)

SplitTraceOutputs == {[batch_id |-> b, amount |-> Qty(100, "kg")] : b \in BatchIds \ {1}}

NextSplitTrace ==
    \/ \E batch_id \in BatchIds :
        CreateBatch(1, batch_id, "I1", Qty(200, "kg"), "active")
    \/ \E event_id \in EventIds, source_batch_id \in BatchIds,
          output_batches \in SeqsUpTo(SplitTraceOutputs, MaxOutputs) :
        SplitBatch(1, event_id, source_batch_id, output_batches)
    \/ \E batch_id \in BatchIds, direction \in {"upstream", "downstream", "both"} :
        GetBatchTraceability(1, batch_id, direction)

SpecSplitTrace == InitSplit /\ [][NextSplitTrace]_vars

\* the actor's log holds exactly the Event of one successful split
OneSplitLogged == Len(events[1]) = 1 /\ events[1][1].event_type = "split"

\* C22: after a batch S was created and then split successfully into O1..On,
\* S is depleted, every Oi is active, the upstream of every Oi is the single
\* entry for S and the downstream of S lists exactly O1..On.
C22_SplitThenTrace ==
    OneSplitLogged =>
        LET S == events[1][1].inputs[1].batch_id
            Os == SeqIds(events[1][1].outputs, "batch_id")
        IN  /\ (IsCall("split_batch") /\ last.err = "ok")
                    => /\ batches[1][S].status = "depleted"
                       /\ \A i \in 1..Len(Os) :
                            /\ Os[i] \in DOMAIN batches[1]
                            /\ batches[1][Os[i]].status = "active"
            /\ (/\ IsCall("get_batch_traceability") /\ last.actor_id = 1
                /\ last.direction = "upstream" /\ last.batch_id \in Range(Os))
                    => SeqIds(last.result.upstream, "batch_id") = <<S>>
            /\ (/\ IsCall("get_batch_traceability") /\ last.actor_id = 1
                /\ last.direction = "downstream" /\ last.batch_id = S)
                    => SeqIds(last.result.downstream, "batch_id") = Os

\* batch 1 was split into batches 2 and 3, and the downstream of batch 1 was
\* asked for
C22_Witness ==
    /\ OneSplitLogged
    /\ events[1][1].inputs[1].batch_id = 1
    /\ SeqIds(events[1][1].outputs, "batch_id") = <<2, 3>>
    /\ IsCall("get_batch_traceability")
    /\ last.direction = "downstream" /\ last.batch_id = 1
    /\ SeqIds(last.result.downstream, "batch_id") = <<2, 3>>

-----------------------------------------------------------------------------
(* compliance_service.py: the recall report *)

\* RecallReport.__init__: the scope of a fresh report
RecallScope ==
    [total_harvested |-> 0, unit |-> "", current_inventory |-> 0,
     distributed |-> 0, waste |-> 0, math_check |-> FALSE]

\* the columns of the Event model
EventColumns ==
    {"pk", "id", "actor_id", "event_type", "timestamp", "jsonb_doc",
     "created_at", "updated_at"}

\* jsonb_doc[side] @> [{"batch_id": batch_id}]
Contains(ev, side, batch_id) ==
    \E i \in 1..Len(Get(ev, side, <<>>)) : Get(ev[side][i], "batch_id", 0) = batch_id

\* the first event of the actor that lists the batch among its outputs
find_creation_event(db, actor_id, batch_id) ==
    LET made == SelectSeq(db.events[actor_id], LAMBDA e : Contains(e, "outputs", batch_id))
    IN  IF made = <<>> THEN None ELSE Head(made)

\* _trace_upstream as generate_recall_report calls it, with visited = set():
\* after the node is built the function reads event.location_id, which the
\* Event model does not have, before it looks at any input
trace_upstream(db, actor_id, event) ==
    IF "location_id" \in EventColumns THEN "ok" ELSE "AttributeError"

RECURSIVE trace_downstream(_, _, _, _)
RECURSIVE TraceDownstreamEvents(_, _, _, _)
RECURSIVE TraceDownstreamOutputs(_, _, _, _)

\* acc = [results, visited]; the events consuming the batch, in log order
trace_downstream(db, actor_id, batch_id, acc) ==
    TraceDownstreamEvents(db, actor_id,
        SelectSeq(db.events[actor_id], LAMBDA e : Contains(e, "inputs", batch_id)), acc)

TraceDownstreamEvents(db, actor_id, found, acc) ==
    IF found = <<>> THEN acc
    ELSE LET event == Head(found)
             outputs == Get(event, "outputs", <<>>)
             node == [event_id |-> event.id, type |-> event.event_type,
                      destination |->
                          IF event.event_type = "shipping"
                          THEN [buyer |-> Get(event, "notes", "Unknown Buyer"),
                                contact |-> "See CRM"]
                          ELSE None,
                      outputs |-> SeqIds(outputs, "batch_id")]
             after == TraceDownstreamOutputs(db, actor_id, outputs,
                          [acc EXCEPT !.visited = @ \cup {event.id}])
         IN  IF event.id \in acc.visited
             THEN TraceDownstreamEvents(db, actor_id, Tail(found), acc)
             ELSE TraceDownstreamEvents(db, actor_id, Tail(found),
                      [after EXCEPT !.results = Append(@, node)])

TraceDownstreamOutputs(db, actor_id, outputs, acc) ==
    IF outputs = <<>> THEN acc
    ELSE TraceDownstreamOutputs(db, actor_id, Tail(outputs),
             trace_downstream(db, actor_id, Head(outputs).batch_id, acc))

generate_recall_report(db, actor_id, batch_id) ==
    LET target_batch == get_batch(db, actor_id, batch_id)
        qty == target_batch.quantity
        scope == IF Truthy(qty)
                 THEN [RecallScope EXCEPT !.total_harvested = qty.amount, !.unit = qty.unit]
                 ELSE RecallScope
        creation_event == find_creation_event(db, actor_id, batch_id)
        downstream == trace_downstream(db, actor_id, batch_id,
                                       [results |-> <<>>, visited |-> {}]).results
    IN  IF ~Truthy(target_batch) THEN [err |-> "ValueError", report |-> None]
        ELSE IF /\ Truthy(creation_event)
                /\ trace_upstream(db, actor_id, creation_event) # "ok"
        THEN [err |-> trace_upstream(db, actor_id, creation_event), report |-> None]
        ELSE [err |-> "ok",
              report |-> [meta |-> [batch_id |-> batch_id], scope |-> scope,
                          upstream |-> <<>>, downstream |-> downstream]]

GenerateRecallReport(actor_id, batch_id) ==
    LET r == generate_recall_report(Cur, actor_id, batch_id)
    IN  Apply([op |-> "generate_recall_report", actor_id |-> actor_id,
               batch_id |-> batch_id, result |-> r.report, err |-> "ok"],
              Ret(Cur, r.err))

\* Actor 1 has harvested batch 1 and may have processed part of it into
\* batch 2 (event 1); shipping and disposal events are then logged.
RecallSeeds ==
    {Db(StoreOf([b \in {1} |-> BatchRow("I1", "active", q, "harvest")], <<>>), EmptyStore) :
        q \in {None, Qty(0, "kg"), Qty(200, "kg")}}

RecallStores ==
    RecallSeeds \cup
    {record_processing_event(db, 1, 1,
         <<[batch_id |-> 1, amount |-> Qty(120, "kg")]>>,
         <<[batch_id |-> 2, item_id |-> "I2", amount |-> Qty(180, "jar")]>>).db :
        db \in RecallSeeds}

RecallEvents(event_id) ==
    {EventDoc(event_id, type, <<[batch_id |-> b, amount |-> Qty(100, "kg")]>>, outputs) @@ notes :
        type \in {"shipping", "disposal"}, b \in {1, 2},
        outputs \in {<<>>, <<[batch_id |-> 3]>>},
        notes \in {<<>>, [notes |-> "Buyer"]}}

InitRecall ==
    /\ \E db \in RecallStores : batches = db.batches /\ events = db.events
    /\ pre = Db(batches, events)
    /\ last = NoCall
    /\ nops = 0
    /\ actors = Actors

NextRecall ==
    \/ \E event_id \in EventIds : \E event_data \in RecallEvents(event_id) :
        CreateEvent(1, event_data)
    \/ \E batch_id \in BatchIds : GenerateRecallReport(1, batch_id)

SpecRecall == InitRecall /\ [][NextRecall]_vars

\* the log read by the report holds a processing event that consumed batch 1
\* and produced the reported batch, and a shipping event that consumed it
RecallChain ==
    /\ IsCall("generate_recall_report")
    /\ \E i \in 1..Len(pre.events[last.actor_id]) :
        LET e == pre.events[last.actor_id][i]
        IN  /\ e.event_type = "processing"
            /\ Contains(e, "inputs", 1) /\ Contains(e, "outputs", last.batch_id)
    /\ \E i \in 1..Len(pre.events[last.actor_id]) :
        LET e == pre.events[last.actor_id][i]
        IN  e.event_type = "shipping" /\ Contains(e, "inputs", last.batch_id)

\* C23: for the chain harvest B1 -> processing (B1 to B2) -> shipping of B2,
\* the recall report on B2 is returned, its upstream contains the processing
\* event with B1 among its inputs and its downstream contains the shipping
\* event with a destination.
C23_RecallChainReported ==
    RecallChain =>
        /\ last.err = "ok"
        /\ \E i \in 1..Len(last.result.upstream) :
            /\ last.result.upstream[i].type = "processing"
            /\ \E k \in 1..Len(last.result.upstream[i].inputs) :
                last.result.upstream[i].inputs[k].batch_id = 1
        /\ \E i \in 1..Len(last.result.downstream) :
            /\ last.result.downstream[i].type = "shipping"
            /\ Truthy(last.result.downstream[i].destination)

\* the amount of a batch that the entries of an inputs list consume
RECURSIVE RefAmount(_, _)
RefAmount(refs, batch_id) ==
    IF refs = <<>> THEN 0
    ELSE (IF Head(refs).batch_id = batch_id THEN Head(refs).amount.amount ELSE 0)
         + RefAmount(Tail(refs), batch_id)

\* the amount of a batch consumed by the events of one type in a log
RECURSIVE RecallConsumed(_, _, _)
RecallConsumed(log, type, batch_id) ==
    IF log = <<>> THEN 0
    ELSE (IF Head(log).event_type = type THEN RefAmount(Head(log).inputs, batch_id) ELSE 0)
         + RecallConsumed(Tail(log), type, batch_id)

\* C24: in every report that is returned, scope.math_check is true exactly
\* when total_harvested = current_inventory + distributed + waste, where
\* distributed and waste are the amounts of the reported batch consumed by
\* the shipping and disposal events.
C24_MathCheck ==
    (IsCall("generate_recall_report") /\ last.err = "ok") =>
        LET scope == last.result.scope
            log == pre.events[last.actor_id]
        IN  /\ scope.math_check <=>
                (scope.total_harvested =
                    scope.current_inventory + scope.distributed + scope.waste)
            /\ scope.distributed = RecallConsumed(log, "shipping", last.batch_id)
            /\ scope.waste = RecallConsumed(log, "disposal", last.batch_id)

-----------------------------------------------------------------------------
(* Actors.  registry is the set of ids that have an Actor row. *)

\* POST /actors: refused when an actor with the id exists
create_actor(registry, db, actor_id) ==
    IF actor_id \in registry
    THEN [actors |-> registry, db |-> db, err |-> "HTTP400"]
    ELSE [actors |-> registry \cup {actor_id}, db |-> db, err |-> "ok"]

\* POST /actors/{actor_id}/delete: db.delete(actor); db.commit().  No model
\* declares a foreign key or a relationship from Item, Batch, Process, Event
\* or Location to Actor, so only the Actor row goes.
delete_actor(registry, db, actor_id) ==
    IF actor_id \notin registry
    THEN [actors |-> registry, db |-> db, err |-> "HTTP404"]
    ELSE [actors |-> registry \ {actor_id}, db |-> db, err |-> "ok"]

ApplyRegistry(call, r) ==
    /\ nops < MaxOps
    /\ nops' = nops + 1
    /\ pre' = Db(batches, events)
    /\ batches' = r.db.batches
    /\ events' = r.db.events
    /\ actors' = r.actors
    /\ last' = [call EXCEPT !.err = r.err]

CreateActor(actor_id) ==
    ApplyRegistry([op |-> "create_actor", actor_id |-> actor_id, err |-> "ok"],
                  create_actor(actors, Cur, actor_id))

DeleteActor(actor_id) ==
    ApplyRegistry([op |-> "delete_actor", actor_id |-> actor_id, err |-> "ok"],
                  delete_actor(actors, Cur, actor_id))

InitActors == InitWith(LifecycleSeeds)

\* the batch and event routes resolve the actor first
NextActors ==
    \/ \E actor_id \in Actors : CreateActor(actor_id)
    \/ \E actor_id \in Actors : DeleteActor(actor_id)
    \/ \E actor_id \in actors, batch_id \in BatchIds, quantity \in {None, Qty(200, "kg")} :
        CreateBatch(actor_id, batch_id, "I1", quantity, "active")
    \/ \E actor_id \in actors, event_id \in EventIds :
        \E event_data \in TraceEvents(event_id) : CreateEvent(actor_id, event_data)

SpecActors == InitActors /\ [][NextActors]_vars

\* C25: once an Actor is deleted, no Batch and no Event with its actor_id
\* remains (Items, Processes and Locations are tied to the actor in the same
\* way), so an actor created later with the same id starts with no batches
\* and no events.
C25_ActorDeletionCascades ==
    /\ \A a \in Actors \ actors : DOMAIN batches[a] = {} /\ events[a] = <<>>
    /\ (IsCall("create_actor") /\ last.err = "ok")
            => DOMAIN batches[last.actor_id] = {} /\ events[last.actor_id] = <<>>

-----------------------------------------------------------------------------
(* Outputs of a processing event that name batches the actor already has *)

ProcOutIds == SeqIds(last.outputs, "batch_id")

ExistingOutputs == Range(ProcOutIds) \cap DOMAIN PreRows

OutputsOfNewBatches == SelectSeq(last.outputs, LAMBDA o : o.batch_id \notin DOMAIN PreRows)

NamedAmongInputs(b) == \E i \in 1..Len(last.inputs) : last.inputs[i].batch_id = b

\* the outcome of the call is the one it has without the outputs that name
\* existing batches, and when it succeeds its Event lists all outputs
ExistingOutputAccepted ==
    /\ last.err = record_processing_event(pre, last.event_id, last.actor_id,
                                          last.inputs, OutputsOfNewBatches).err
    /\ last.err = "ok" =>
            Appended(EventDoc(last.event_id, "processing", last.inputs, last.outputs))

\* an id listed twice that did not exist: the batch is the one the first
\* listing created
FirstListingKept ==
    \A i, j \in 1..Len(last.outputs) :
        (/\ i < j /\ ProcOutIds[i] = ProcOutIds[j]
         /\ \A k \in 1..(i - 1) : ProcOutIds[k] # ProcOutIds[i]
         /\ ProcOutIds[i] \notin DOMAIN PreRows /\ last.err = "ok")
            => /\ ProcOutIds[i] \in DOMAIN Rows
               /\ Rows[ProcOutIds[i]].quantity = last.outputs[i].amount
               /\ Rows[ProcOutIds[i]].item_id = last.outputs[i].item_id

\* C26 as stated: a record_processing_event whose outputs name a batch the
\* actor already has still succeeds and persists its Event, and that batch
\* keeps its quantity, status, item_id and origin_kind; an id listed twice
\* among the outputs keeps what its first listing created.
C26_ExistingOutputUntouched ==
    IsCall("record_processing_event") =>
        /\ FirstListingKept
        /\ ExistingOutputs # {} =>
            /\ ExistingOutputAccepted
            /\ \A b \in ExistingOutputs : Rows[b] = PreRows[b]

\* C26 amended: the existing batch is untouched unless the event also names
\* it among its inputs; then only its quantity and status change, by the
\* deduction of the inputs.
C26_ExistingOutputUntouched_Amended ==
    IsCall("record_processing_event") =>
        /\ FirstListingKept
        /\ ExistingOutputs # {} =>
            /\ ExistingOutputAccepted
            /\ \A b \in ExistingOutputs :
                /\ ~NamedAmongInputs(b) => Rows[b] = PreRows[b]
                /\ Rows[b].item_id = PreRows[b].item_id
                /\ Rows[b].origin_kind = PreRows[b].origin_kind
                /\ PreRows[b].quantity = None => Rows[b].quantity = None
                /\ PreRows[b].quantity # None =>
                    /\ Rows[b].quantity.unit = PreRows[b].quantity.unit
                    /\ Rows[b].quantity.amount <= PreRows[b].quantity.amount

\* a successful event consumed batch 2 and listed the existing batch 1 as its
\* output
C26_Witness ==
    /\ IsCall("record_processing_event") /\ last.err = "ok"
    /\ ExistingOutputs = {1} /\ ~NamedAmongInputs(1)
    /\ NamedAmongInputs(2)
    /\ Rows[1] = PreRows[1]
    /\ Rows[2] # PreRows[2]

-----------------------------------------------------------------------------
(* Inputs that name one batch more than once *)

\* C28: after a successful record_processing_event, for every batch b the
\* amounts of all recorded inputs that name b sum to at most the quantity b had
\* immediately before the event, also when b is named more than once.
C28_InputsWithinQuantity ==
    (IsCall("record_processing_event") /\ last.err = "ok") =>
        \A b \in DOMAIN PreRows :
            PreRows[b].quantity # None =>
                RefAmount(events[last.actor_id][Len(events[last.actor_id])].inputs, b)
                    <= PreRows[b].quantity.amount

-----------------------------------------------------------------------------
(* Event ids that are already taken *)

\* C29: record_processing_event, split_batch or merge_batches called with an
\* event_id the actor already has an event for fails, changes no batch's
\* quantity or status and creates no batch.
C29_DuplicateEventIdRejected ==
    (/\ last.op \in {"record_processing_event", "split_batch", "merge_batches"}
     /\ PreHasEvent(last.event_id))
        => /\ last.err # "ok"
           /\ events = pre.events
           /\ batches = pre.batches

-----------------------------------------------------------------------------
(* Two record_processing_event calls of actor 1 that consume from batch 1  *)
(* at the same time, each in its own session.  A call validates its        *)
(* inputs, deducts them (update_batch_details commits), and inserts its    *)
(* Event.  last.lock says whether the caller wraps each call in a lock on  *)
(* the batch, held from the first read to the last write; the code itself  *)
(* takes none.                                                             *)

ConcurrentCall(event_id, amount) ==
    [event_id |-> event_id, inputs |-> <<[batch_id |-> 1, amount |-> Qty(amount, "kg")]>>,
     pc |-> "start", err |-> "ok", seen |-> Db(EmptyStore, EmptyStore)]

ConcurrentAmounts == {80, 120, 200, 240}

InitConcurrent ==
    /\ batches = StoreOf([b \in {1} |-> BatchRow("I1", "active", Qty(200, "kg"), "None")], <<>>)
    /\ events = EmptyStore
    /\ pre = Db(batches, events)
    /\ \E lock \in BOOLEAN, a1 \in ConcurrentAmounts, a2 \in ConcurrentAmounts :
        last = [op |-> "concurrent_processing", actor_id |-> 1, err |-> "ok",
                lock |-> lock, holder |-> 0,
                calls |-> <<ConcurrentCall(1, a1), ConcurrentCall(2, a2)>>]
    /\ nops = 0
    /\ actors = Actors

\* validate_production_inputs: the session reads the batch rows
Validate(i) ==
    LET c == last.calls[i]
        v == validate_production_inputs(Cur, last.actor_id, c.inputs)
    IN  /\ last.op = "concurrent_processing"
        /\ c.pc = "start"
        /\ last.lock => last.holder = 0
        /\ last' = [last EXCEPT
                        !.calls[i] = [c EXCEPT !.pc = IF v = "ok" THEN "validated" ELSE "failed",
                                               !.err = IF v = "ok" THEN "ok" ELSE "ValidationError",
                                               !.seen = Cur],
                        !.holder = IF last.lock /\ v = "ok" THEN i ELSE 0]
        /\ UNCHANGED <<batches, events, pre, nops, actors>>

\* the deduction loop: get_batch returns the row as the session holds it,
\* which is the row read during validation or the row as it is now; the new
\* quantity and status computed from it are written and committed
Deduct(i) ==
    LET c == last.calls[i]
        input_data == c.inputs[1]
    IN  /\ last.op = "concurrent_processing"
        /\ c.pc = "validated"
        /\ \E snapshot \in {c.seen, Cur} :
            batches' = PutBatch(Cur, last.actor_id, input_data.batch_id,
                           get_batch(DeductInput(snapshot, last.actor_id, input_data),
                                     last.actor_id, input_data.batch_id)).batches
        /\ last' = [last EXCEPT !.calls[i].pc = "deducted"]
        /\ UNCHANGED <<events, pre, nops, actors>>

\* db.add(db_event); db.commit()
Persist(i) ==
    LET c == last.calls[i]
        r == AddEvent(Cur, last.actor_id,
                      EventDoc(c.event_id, "processing", c.inputs, <<>>))
    IN  /\ last.op = "concurrent_processing"
        /\ c.pc = "deducted"
        /\ events' = r.db.events
        /\ last' = [last EXCEPT !.calls[i].pc = IF r.err = "ok" THEN "done" ELSE "failed",
                                !.calls[i].err = r.err,
                                !.holder = 0]
        /\ UNCHANGED <<batches, pre, nops, actors>>

NextConcurrent ==
    \/ \E i \in 1..2 : Validate(i)
    \/ \E i \in 1..2 : Deduct(i)
    \/ \E i \in 1..2 : Persist(i)

SpecConcurrent == InitConcurrent /\ [][NextConcurrent]_vars

ConcurrentAmount(i) == last.calls[i].inputs[1].amount.amount

\* the amounts consumed by the calls whose Event is committed
CommittedTotal ==
    (IF last.calls[1].pc = "done" THEN ConcurrentAmount(1) ELSE 0)
    + (IF last.calls[2].pc = "done" THEN ConcurrentAmount(2) ELSE 0)

ConcurrentFinished == \A i \in 1..2 : last.calls[i].pc \in {"done", "failed"}

\* C27: under a lock held from a call's first read to its last write, the
\* batch ends with its initial quantity minus the amounts of the calls that
\* succeeded, and a call that asks for more than what remains when it runs
\* fails with ValidationError; without the lock no interleaving commits two
\* consumptions whose sum exceeds the initial quantity.
C27_ConcurrentConsumption ==
    last.op = "concurrent_processing" =>
        /\ (last.lock /\ ConcurrentFinished) =>
                batches[1][1].quantity.amount
                    = pre.batches[1][1].quantity.amount - CommittedTotal
        /\ last.lock =>
                \A i \in 1..2 :
                    (/\ last.calls[i].pc # "start"
                     /\ ConcurrentAmount(i) > last.calls[i].seen.batches[1][1].quantity.amount)
                        => /\ last.calls[i].pc = "failed"
                           /\ last.calls[i].err = "ValidationError"
        /\ ~last.lock => CommittedTotal <= pre.batches[1][1].quantity.amount

-----------------------------------------------------------------------------
(* Tenant isolation *)

\* the store with everything owned by other actors removed
OwnOnly(db, actor_id) ==
    Db([a \in Actors |-> IF a = actor_id THEN db.batches[a] ELSE <<>>],
       [a \in Actors |-> IF a = actor_id THEN db.events[a] ELSE <<>>])

\* C30: a record_processing_event, get_batch_traceability or
\* generate_recall_report call of actor A has the same outcome and the same
\* result in two stores that differ only in what other actors own, whatever
\* batch ids and per-input actor_id fields occur: here the store the call ran
\* in and that store without the other actors' batches and events.
C30_TenantIsolation ==
    /\ IsCall("record_processing_event") =>
        LET alone == record_processing_event(OwnOnly(pre, last.actor_id), last.event_id,
                                             last.actor_id, last.inputs, last.outputs)
        IN  /\ last.err = alone.err
            /\ batches[last.actor_id] = alone.db.batches[last.actor_id]
            /\ events[last.actor_id] = alone.db.events[last.actor_id]
            /\ \A a \in Actors \ {last.actor_id} :
                batches[a] = pre.batches[a] /\ events[a] = pre.events[a]
    /\ IsCall("get_batch_traceability") =>
        last.result = get_batch_traceability(OwnOnly(pre, last.actor_id), last.actor_id,
                                             last.batch_id, last.direction)
    /\ IsCall("generate_recall_report") =>
        LET alone == generate_recall_report(OwnOnly(pre, last.actor_id), last.actor_id,
                                            last.batch_id)
        IN  last.err = alone.err /\ last.result = alone.report

====
